---- MODULE Spec2Model ----
(***************************************************************************)
(* DoctorClaw: the action proposal / approval / execution subsystem.       *)
(*                                                                         *)
(* The program runs in one of two modes.                                   *)
(*   terminal  src/terminal.mjs: a readline REPL.  Every 'line' event      *)
(*             starts an async handler (a "thread" below): it pauses       *)
(*             readline, pushes the user message, streams a response,      *)
(*             extracts the actions, asks "Approve? (y/n)" for each one,   *)
(*             executes the approved ones synchronously and recurses into  *)
(*             a follow-up generation.  rl.question() goes through         *)
(*             rl.prompt(), which resumes a paused interface (without that *)
(*             no approval prompt could ever be answered), and nothing     *)
(*             pauses it again after the answer.                           *)
(*   web       the express server of src/install.bat (POST /api/execute,   *)
(*             POST /api/chat) and the browser client public/index.html.   *)
(*             The client is not part of the sources; its approve / deny   *)
(*             handlers are modelled from the "Fixes" notes in             *)
(*             src/install.bat and from the specification.                 *)
(*                                                                         *)
(* approvals, denials and execLog are history variables: they record what  *)
(* the user answered and what the executor ran.                            *)
(***************************************************************************)
EXTENDS Naturals, Sequences, FiniteSets

VARIABLES
    mode,          \* "terminal" | "web"
    alive,         \* FALSE after process.exit
    conversation,  \* the session's messages, oldest first
    nextId,        \* number of actions extracted so far (ids are 1..nextId)
    msgCount,      \* number of messages the user has sent to the model
    approvals,     \* ids the user has approved
    denials,       \* ids the user has denied
    execLog,       \* executor invocations so far per action id, 0 = no action
    \* terminal mode
    threads,       \* the async 'line' handlers in flight
    paused,        \* readline: input stream paused
    qcb,           \* readline: owner of the pending question callback, 0 = none
    stdinBuf,      \* the line typed and not yet delivered by readline
    \* web mode
    status,        \* the client's action objects: id -> status
    stored,        \* the persisted copy of the statuses
    streaming,     \* the client's generation-in-progress flag
    activeStreams, \* number of response streams the client is consuming
    reqs,          \* POST /api/execute requests not yet handled by the server
    replies,       \* /api/execute responses not yet handled by the client
    orphaned,      \* ids whose approve handler, waiting for its response,
                   \* holds an action object that is no longer part of the
                   \* client's sessions array
    \* the server's event loop, with the requests of several sessions
    srvExec,       \* session whose command the thread is blocked in, 0 = none
    srvReq,        \* session -> state of its /api/execute request
    srvChat,       \* session -> its /api/chat response: open, chunks sent,
                   \* the upstream, what was written when it was closed
    \* the response scanner (streamChat, extractActions)
    doc,           \* the response the model sends, in segments
    text,          \* the response the model sends, in characters
    full,          \* streamChat: the text received so far
    chunk,         \* streamChat: what of the fragment is still to be scanned
    insideAction,  \* streamChat: display suppressed, inside a tag
    pendingBracket,\* streamChat: text held back as a possible opener
    display,       \* what streamChat has written to the terminal
    actions,       \* what extractActions has returned
    done,          \* the stream has ended
    host           \* the safety gate and the host of the executor

vars == <<mode, alive, conversation, nextId, msgCount, approvals, denials,
          execLog, threads, paused, qcb, stdinBuf, status, stored, streaming,
          activeStreams, reqs, replies, orphaned, srvExec, srvReq, srvChat,
          doc, text, full, chunk, insideAction, pendingBracket, display,
          actions, done, host>>

sessVars == <<mode, alive, conversation, nextId, msgCount, approvals, denials,
              execLog>>
termVars == <<threads, paused, qcb, stdinBuf>>
webVars == <<status, stored, streaming, activeStreams, reqs, replies,
             orphaned>>
srvVars == <<srvExec, srvReq, srvChat>>
scanVars == <<doc, text, full, chunk, insideAction, pendingBracket, display,
              actions, done>>


(***************************************************************************)
(* Bounds of the model.                                                    *)
(***************************************************************************)
MaxIds == 2           \* actions extracted in a run
MaxMsgs == 2          \* messages the user sends in a run, terminal mode
MaxForeign == 1       \* execute requests of other HTTP clients in a run
MaxSessions == 2      \* browser sessions the server serves at a time
MaxChunks == 2        \* chunks of a response stream
MaxSegs == 2          \* segments (texts, tags) of a response
MaxPayload == 3       \* characters of the payload of a tag
MaxRuns == 2          \* actions executed on the host in a run
MaxLiveIds == 3       \* actions extracted in a run under fair scheduling

\* One response may hold all the actions of a run; every execution is one
\* request; every message of the user has its 'line' handler.
MaxActs == MaxIds
MaxExec == MaxIds
MaxThreads == MaxMsgs

\* The runs of the web mode, whose steps interleave more widely, have one
\* message less.
MaxWebMsgs == MaxMsgs - 1

Ids == 1..MaxIds
Tids == 1..MaxThreads
Sessions == 1..MaxSessions

\* The lines a user types: an answer starting with 'y', any other text,
\* the empty line and two slash commands.
Lines == {"y", "n", "", "/new", "/quit"}
NoLine == "none"

Msg(role, kind, act, ok) == [role |-> role, kind |-> kind, act |-> act, ok |-> ok]

UserMsg == Msg("user", "text", 0, FALSE)
AssistantMsg == Msg("assistant", "full", 0, FALSE)
ResultMsg(a, ok) == Msg("user", "result", a, ok)
DeniedMsg(a) == Msg("user", "denied", a, FALSE)

\* Array.prototype.pop: removes the last element, a no-op on an empty array.
Pop(s) == IF Len(s) = 0 THEN s ELSE SubSeq(s, 1, Len(s) - 1)

\* The ids given to the n actions extracted from a response.
NewActs(n) == [k \in 1..n |-> nextId + k]

Frame(acts) == [acts |-> acts, i |-> 1]

FreeThread == [pc |-> "free", stack |-> <<>>]

NoExec == [a \in 0..MaxLiveIds |-> 0]
Logged(log, a) == [log EXCEPT ![a] = @ + 1]
ExecTotal == LET RECURSIVE Sum(_)
                 Sum(k) == IF k = 0 THEN execLog[0] ELSE execLog[k] + Sum(k - 1)
             IN Sum(MaxIds)

(***************************************************************************)
(* The host.  What an execution returns depends on the host's policy,      *)
(* files and processes: success, a denial by the safety gate, or an error  *)
(* of the operation itself; the last two are returned with success: false. *)
(***************************************************************************)
ExecOutcomes == {"ok", "denied", "error"}

(***************************************************************************)
(* Terminal mode.                                                          *)
(***************************************************************************)

\* Control returns to the caller of processResponse: the caller's for-loop
\* goes on to its next action (promptYN), or ends and returns in turn; with
\* no caller left, handleUserInput returns.
\* (Variant: the loop does not move on; the caller offers the action it
\* has just handled once more.)
ReturnToSame(stack) ==
    IF stack = <<>>
    THEN [pc |-> "free", stack |-> <<>>]
    ELSE [pc |-> "ask", stack |-> stack]

\* (Variant: the loop passes over the action that follows the one it has
\* just handled.)
RECURSIVE ReturnToSkip(_)
ReturnToSkip(stack) ==
    IF stack = <<>>
    THEN [pc |-> "free", stack |-> <<>>]
    ELSE LET top == stack[Len(stack)] IN
         IF top.i + 1 < Len(top.acts)
         THEN [pc |-> "ask", stack |-> [stack EXCEPT ![Len(stack)].i = top.i + 2]]
         ELSE ReturnToSkip(Pop(stack))

RECURSIVE ReturnTo(_)
ReturnTo(stack) ==
    IF stack = <<>>
    THEN [pc |-> "free", stack |-> <<>>]
    ELSE LET top == stack[Len(stack)] IN
         IF top.i < Len(top.acts)
         THEN [pc |-> "ask", stack |-> [stack EXCEPT ![Len(stack)].i = top.i + 1]]
         ELSE ReturnTo(Pop(stack))

\* The thread t goes on as r, with readline's part: promptYN registers the
\* question callback unless one is pending (rl.question) and resumes the
\* input; the end of the 'line' handler calls rl.prompt() and rl.resume().
\* q is the pending question callback at this point.
Continue(t, r, q) ==
    /\ threads' = [threads EXCEPT ![t] = r]
    /\ qcb' = IF r.pc = "ask" /\ q = 0 THEN t ELSE q
    /\ paused' = IF r.pc \in {"ask", "free"} THEN FALSE ELSE paused

\* process.exit(0): nothing runs any more, and what the process held in
\* memory is gone.
Exited ==
    /\ alive' = FALSE
    /\ conversation' = <<>>
    /\ threads' = [t \in Tids |-> FreeThread]
    /\ paused' = FALSE
    /\ qcb' = 0
    /\ stdinBuf' = NoLine
    /\ UNCHANGED <<mode, nextId, msgCount, approvals, denials, execLog>>
    /\ UNCHANGED <<webVars, srvVars, scanVars, host>>

\* The user types a line; it waits in the input stream until readline
\* delivers it.
Type(l) ==
    /\ mode = "terminal" /\ alive
    /\ stdinBuf = NoLine
    /\ stdinBuf' = l
    /\ UNCHANGED <<mode, alive, conversation, nextId, msgCount, approvals,
                   denials, execLog, threads, paused, qcb>>
    /\ UNCHANGED <<webVars, srvVars, scanVars, host>>

\* (Variant: the handler does not pause the interface, which goes on
\* delivering lines during the processing.)
LineReadyUnpaused == qcb = 0 /\ stdinBuf # NoLine

\* readline emits 'line': the interface is not paused (rl.pause() in the
\* handler holds the next lines back), no question is pending, and a line
\* has been typed.
LineReady == ~paused /\ qcb = 0 /\ stdinBuf # NoLine

\* rl.on('line') with handleUserInput, up to its first suspension.
OnLine ==
    /\ mode = "terminal" /\ alive
    /\ LineReady
    /\ LET line == stdinBuf IN
       CASE line = "" ->
                 /\ stdinBuf' = NoLine
                 /\ paused' = FALSE
                 /\ UNCHANGED <<mode, alive, conversation, nextId, msgCount,
                                approvals, denials, execLog, threads, qcb>>
                 /\ UNCHANGED <<webVars, srvVars, scanVars, host>>
            [] line = "/quit" ->
                 Exited
            [] line = "/new" ->
                 /\ stdinBuf' = NoLine
                 /\ conversation' = <<>>
                 /\ paused' = FALSE
                 /\ UNCHANGED <<mode, alive, nextId, msgCount, approvals,
                                denials, execLog, threads, qcb>>
                 /\ UNCHANGED <<webVars, srvVars, scanVars, host>>
            [] OTHER ->
                 /\ msgCount < MaxMsgs
                 /\ \E t \in Tids :
                      /\ threads[t].pc = "free"
                      /\ \A u \in Tids : u < t => threads[u].pc # "free"
                      /\ threads' = [threads EXCEPT ![t] = [pc |-> "stream", stack |-> <<>>]]
                 /\ stdinBuf' = NoLine
                 /\ conversation' = Append(conversation, UserMsg)
                 /\ msgCount' = msgCount + 1
                 /\ paused' = TRUE
                 /\ UNCHANGED <<mode, alive, nextId, approvals, denials,
                                execLog, qcb>>
                 /\ UNCHANGED <<webVars, srvVars, scanVars, host>>

\* streamChat returns the full response; processResponse pushes it, extracts
\* its n actions and prompts for the first one, or returns when there is none.
\* (max is the number of actions that the responses of a run propose.)
StreamEnd(t, n, max) ==
    /\ mode = "terminal" /\ alive
    /\ threads[t].pc = "stream"
    /\ nextId + n <= max
    /\ conversation' = Append(conversation, AssistantMsg)
    /\ nextId' = nextId + n
    /\ LET stack == threads[t].stack
           r == IF n = 0 THEN ReturnTo(stack)
                ELSE [pc |-> "ask", stack |-> Append(stack, Frame(NewActs(n)))]
       IN Continue(t, r, qcb)
    /\ UNCHANGED <<mode, alive, msgCount, approvals, denials, execLog, stdinBuf>>
    /\ UNCHANGED <<webVars, srvVars, scanVars, host>>

TermStreamEnd(t, n) == StreamEnd(t, n, MaxIds)

\* streamChat throws: the catch pops the conversation and returns.
TermStreamFail(t) ==
    /\ mode = "terminal" /\ alive
    /\ threads[t].pc = "stream"
    /\ conversation' = Pop(conversation)
    /\ Continue(t, ReturnTo(threads[t].stack), qcb)
    /\ UNCHANGED <<mode, alive, nextId, msgCount, approvals, denials, execLog,
                   stdinBuf>>
    /\ UNCHANGED <<webVars, srvVars, scanVars, host>>

\* (Variant: after an approved execution the loop goes on to the next action
\* without a follow-up generation.)
OnAnswerNoFollowUp(out) ==
    /\ mode = "terminal" /\ alive
    /\ ~paused /\ qcb # 0 /\ stdinBuf # NoLine
    /\ LET t == qcb
           stack == threads[t].stack
           top == stack[Len(stack)]
           a == top.acts[top.i]
       IN IF stdinBuf = "y"
          THEN /\ approvals' = approvals \cup {a}
               /\ execLog' = Logged(execLog, a)
               /\ conversation' = Append(conversation, ResultMsg(a, out = "ok"))
               /\ Continue(t, ReturnTo(stack), 0)
               /\ UNCHANGED denials
          ELSE /\ out = "ok"
               /\ denials' = denials \cup {a}
               /\ conversation' = Append(conversation, DeniedMsg(a))
               /\ Continue(t, ReturnTo(stack), 0)
               /\ UNCHANGED <<approvals, execLog>>
    /\ stdinBuf' = NoLine
    /\ UNCHANGED <<mode, alive, nextId, msgCount>>
    /\ UNCHANGED <<webVars, srvVars, scanVars, host>>

\* The answer to "Approve? (y/n)": readline hands the line to the pending
\* question callback.  Approved: executeAction runs (synchronously), its
\* result is pushed and the follow-up generation starts.  Otherwise the
\* denial is pushed and the loop goes on.
OnAnswer(out) ==
    /\ mode = "terminal" /\ alive
    /\ ~paused /\ qcb # 0 /\ stdinBuf # NoLine
    /\ LET t == qcb
           stack == threads[t].stack
           top == stack[Len(stack)]
           a == top.acts[top.i]
       IN IF stdinBuf = "y"
          THEN /\ approvals' = approvals \cup {a}
               /\ execLog' = Logged(execLog, a)
               /\ conversation' = Append(conversation, ResultMsg(a, out = "ok"))
               /\ Continue(t, [pc |-> "stream", stack |-> stack], 0)
               /\ UNCHANGED denials
          ELSE /\ out = "ok"
               /\ denials' = denials \cup {a}
               /\ conversation' = Append(conversation, DeniedMsg(a))
               /\ Continue(t, ReturnTo(stack), 0)
               /\ UNCHANGED <<approvals, execLog>>
    /\ stdinBuf' = NoLine
    /\ UNCHANGED <<mode, alive, nextId, msgCount>>
    /\ UNCHANGED <<webVars, srvVars, scanVars, host>>

\* rl.on('close'): the input ends (Ctrl-D, Ctrl-C) and the process exits.
OnClose ==
    /\ mode = "terminal" /\ alive
    /\ Exited

TermNext ==
    \/ \E l \in Lines : Type(l)
    \/ OnLine
    \/ \E t \in Tids, n \in 0..MaxActs : TermStreamEnd(t, n)
    \/ \E t \in Tids : TermStreamFail(t)
    \/ \E out \in ExecOutcomes : OnAnswer(out)
    \/ OnClose

(***************************************************************************)
(* Web mode: the browser client.                                           *)
(***************************************************************************)

\* The elements of a sequence.
Range(q) == {q[k] : k \in 1..Len(q)}
Count(q, x) == Len(SelectSeq(q, LAMBDA y : y = x))

\* The action a has an execute request or its response under way.
InFlight(a) == a \in Range(reqs) \cup Range(replies)

\* save(): the client persists its sessions.
Saved(st) == st

\* streamResp(): the client sets its flag and requests a generation.
StreamResp ==
    /\ streaming' = TRUE
    /\ activeStreams' = activeStreams + 1

\* sendMsg(): ignored while a generation is in progress.
SendMsg ==
    /\ mode = "web"
    /\ IF streaming
       THEN UNCHANGED vars
       ELSE /\ msgCount < MaxWebMsgs
            /\ conversation' = Append(conversation, UserMsg)
            /\ msgCount' = msgCount + 1
            /\ StreamResp
            /\ UNCHANGED <<mode, alive, nextId, approvals, denials, execLog,
                           status, stored, reqs, replies>>
            /\ UNCHANGED <<termVars, srvVars, scanVars, host, orphaned>>

\* The response stream ends: the assistant message is added, its n actions
\* get their ids and the status pending, and the flag is cleared.
WebStreamEnd(n) ==
    /\ mode = "web"
    /\ activeStreams > 0
    /\ nextId + n <= MaxIds
    /\ conversation' = Append(conversation, AssistantMsg)
    /\ nextId' = nextId + n
    /\ status' = [a \in Ids |-> IF a \in nextId + 1 .. nextId + n
                                THEN "pending" ELSE status[a]]
    /\ stored' = Saved(status')
    /\ streaming' = FALSE
    /\ activeStreams' = activeStreams - 1
    /\ UNCHANGED <<mode, alive, msgCount, approvals, denials, execLog, reqs,
                   replies>>
    /\ UNCHANGED <<termVars, srvVars, scanVars, host, orphaned>>

\* The token source fails: the failure becomes a visible message and the
\* flag is cleared.
WebStreamError ==
    /\ mode = "web"
    /\ activeStreams > 0
    /\ conversation' = Append(conversation, Msg("assistant", "error", 0, FALSE))
    /\ streaming' = FALSE
    /\ activeStreams' = activeStreams - 1
    /\ UNCHANGED <<mode, alive, nextId, msgCount, approvals, denials, execLog,
                   status, stored, reqs, replies>>
    /\ UNCHANGED <<termVars, srvVars, scanVars, host, orphaned>>

\* The user abandons the generation: the read is torn down and the flag
\* is cleared.
Abandon ==
    /\ mode = "web"
    /\ activeStreams > 0
    /\ streaming' = FALSE
    /\ activeStreams' = activeStreams - 1
    /\ UNCHANGED <<mode, alive, conversation, nextId, msgCount, approvals,
                   denials, execLog, status, stored, reqs, replies>>
    /\ UNCHANGED <<termVars, srvVars, scanVars, host, orphaned>>

\* (Variant: a running action still takes the click.)
CanApproveRunning(a) == ~streaming /\ status[a] \in {"pending", "running"}

\* The approve handler accepts a click when no generation is in progress
\* and the action shows its Approve button (restoreAct renders a running
\* action with a disabled button).
CanApprove(a) == ~streaming /\ status[a] = "pending"

\* (Variant: Approve sends the execute request and leaves the status as it
\* is until the response arrives.)
ApproveClickUnsaved(a) ==
    /\ mode = "web"
    /\ status[a] \in {"pending", "running"}
    /\ IF ~CanApprove(a)
       THEN UNCHANGED vars
       ELSE /\ reqs' = Append(reqs, a)
            /\ approvals' = approvals \cup {a}
            /\ UNCHANGED <<mode, alive, conversation, nextId, msgCount,
                           denials, execLog, status, stored, streaming,
                           activeStreams, replies>>
            /\ UNCHANGED <<termVars, srvVars, scanVars, host, orphaned>>

\* A click on the action's Approve button, which a pending action shows
\* and a running one shows disabled: the status running is set and
\* persisted, then the execute request is sent.
ApproveClick(a) ==
    /\ mode = "web"
    /\ status[a] \in {"pending", "running"}
    /\ IF ~CanApprove(a)
       THEN UNCHANGED vars
       ELSE /\ status' = [status EXCEPT ![a] = "running"]
            /\ stored' = Saved(status')
            /\ reqs' = Append(reqs, a)
            /\ approvals' = approvals \cup {a}
            /\ UNCHANGED <<mode, alive, conversation, nextId, msgCount,
                           denials, execLog, streaming, activeStreams, replies>>
            /\ UNCHANGED <<termVars, srvVars, scanVars, host, orphaned>>

\* (Variant: Deny takes the click whatever the action's status.)
DenyClickAny(a) ==
    /\ mode = "web"
    /\ status[a] # "none"
    /\ IF streaming
       THEN UNCHANGED vars
       ELSE /\ status' = [status EXCEPT ![a] = "denied"]
            /\ stored' = Saved(status')
            /\ denials' = denials \cup {a}
            /\ UNCHANGED <<mode, alive, conversation, nextId, msgCount,
                           approvals, execLog, streaming, activeStreams, reqs,
                           replies>>
            /\ UNCHANGED <<termVars, srvVars, scanVars, host, orphaned>>

\* A click on the Deny button of a pending action: pending -> denied.
DenyClick(a) ==
    /\ mode = "web"
    /\ status[a] = "pending"
    /\ IF streaming
       THEN UNCHANGED vars
       ELSE /\ status' = [status EXCEPT ![a] = "denied"]
            /\ stored' = Saved(status')
            /\ denials' = denials \cup {a}
            /\ UNCHANGED <<mode, alive, conversation, nextId, msgCount,
                           approvals, execLog, streaming, activeStreams, reqs,
                           replies>>
            /\ UNCHANGED <<termVars, srvVars, scanVars, host, orphaned>>

\* A click on the Retry button of a failed action: failed -> pending.
RetryClick(a) ==
    /\ mode = "web"
    /\ status[a] = "failed"
    /\ IF streaming
       THEN UNCHANGED vars
       ELSE /\ status' = [status EXCEPT ![a] = "pending"]
            /\ stored' = Saved(status')
            /\ UNCHANGED <<mode, alive, conversation, nextId, msgCount,
                           approvals, denials, execLog, streaming,
                           activeStreams, reqs, replies>>
            /\ UNCHANGED <<termVars, srvVars, scanVars, host, orphaned>>

\* (Variant: every execution that did not succeed leaves the action failed.)
CompletedOrFailed(out) == IF out = "ok" THEN "succeeded" ELSE "failed"

\* The status the client gives an action whose execution returned out.
Completed(out) ==
    CASE out = "ok" -> "succeeded"
      [] out = "denied" -> "failed"
      [] OTHER -> "pending"

\* (Variant: the follow-up generation is started without a look at the
\* flag.)
MayStreamAlways == TRUE

\* The follow-up generation is started unless one is in progress.
MayStream == ~streaming

\* (Variant: the completion is written to the object the approve handler
\* holds; when that object is no longer part of the sessions array, the
\* action of the array keeps its status.)
ClientCompleteByReference(out) ==
    /\ mode = "web"
    /\ replies # <<>>
    /\ LET a == Head(replies) IN
       /\ status' = IF a \in orphaned THEN status
                    ELSE [status EXCEPT ![a] = Completed(out)]
       /\ stored' = Saved(status')
       /\ conversation' = Append(conversation, ResultMsg(a, out = "ok"))
    /\ replies' = Tail(replies)
    /\ IF MayStream
       THEN StreamResp
       ELSE UNCHANGED <<streaming, activeStreams>>
    /\ UNCHANGED <<mode, alive, nextId, msgCount, approvals, denials, execLog,
                   reqs>>
    /\ orphaned' = orphaned \ {Head(replies)}
    /\ UNCHANGED <<termVars, srvVars, scanVars, host>>

\* The execute request of an action returns { success, result } (out is
\* what the host made of the operation): the action is looked up by id, its
\* status and result are recorded and saved, the result message is added,
\* and the follow-up generation is started unless one is in progress.
ClientComplete(out) ==
    /\ mode = "web"
    /\ replies # <<>>
    /\ LET a == Head(replies) IN
       /\ status' = [status EXCEPT ![a] = Completed(out)]
       /\ stored' = Saved(status')
       /\ conversation' = Append(conversation, ResultMsg(a, out = "ok"))
    /\ replies' = Tail(replies)
    /\ IF MayStream
       THEN StreamResp
       ELSE UNCHANGED <<streaming, activeStreams>>
    /\ UNCHANGED <<mode, alive, nextId, msgCount, approvals, denials, execLog,
                   reqs>>
    /\ orphaned' = orphaned \ {Head(replies)}
    /\ UNCHANGED <<termVars, srvVars, scanVars, host>>

\* The execute request fails (no response): the action reverts to pending.
FetchError ==
    /\ mode = "web"
    /\ replies # <<>>
    /\ status' = [status EXCEPT ![Head(replies)] = "pending"]
    /\ stored' = Saved(status')
    /\ replies' = Tail(replies)
    /\ UNCHANGED <<mode, alive, conversation, nextId, msgCount, approvals,
                   denials, execLog, streaming, activeStreams, reqs>>
    /\ orphaned' = orphaned \ {Head(replies)}
    /\ UNCHANGED <<termVars, srvVars, scanVars, host>>

\* The copy of the session that another tab holds and writes to the shared
\* storage: it was loaded before the approval of the actions that are
\* running now and shows them pending.
StaleView ==
    [a \in Ids |-> IF status[a] = "running" THEN "pending" ELSE stored[a]]

\* (Variant: the replicated status replaces the local one.)
ReconcileIncoming(local, incoming) == incoming

\* The status of an action after a replicated copy has come in: a running
\* action stays running when the copy shows it pending.
Reconcile(local, incoming) ==
    IF local = "running" /\ incoming = "pending" THEN local ELSE incoming

\* A storage event: another tab has written the copy view.  The sessions
\* array is replaced by new objects, whose statuses are reconciled by id
\* with the ones the client held, and saved; the objects that the approve
\* handlers of the executions under way hold are no longer part of it.
StorageEvent(view) ==
    /\ mode = "web"
    /\ status' = [a \in Ids |-> Reconcile(status[a], view[a])]
    /\ stored' = Saved(status')
    /\ orphaned' = orphaned \cup {a \in Ids : InFlight(a)}
    /\ UNCHANGED <<mode, alive, conversation, nextId, msgCount, approvals,
                   denials, execLog, streaming, activeStreams, reqs,
                   replies>>
    /\ UNCHANGED <<termVars, srvVars, scanVars, host>>

(***************************************************************************)
(* Web mode: the server.                                                   *)
(***************************************************************************)

\* POST /api/execute: the handler runs the operation of the request body
\* (execSync: to its end) and responds with { success, result }.  The
\* request says nothing of who sent it or why; a is the action the client
\* sent it for, 0 for a request of any other sender.
ApiExecute(a) ==
    /\ mode = "web"
    /\ ExecTotal < MaxExec
    /\ execLog' = Logged(execLog, a)

\* The server handles the client's next execute request; the response is
\* on its way to the client.
ServeClient ==
    /\ reqs # <<>>
    /\ ApiExecute(Head(reqs))
    /\ replies' = Append(replies, Head(reqs))
    /\ reqs' = Tail(reqs)
    /\ UNCHANGED <<mode, alive, conversation, nextId, msgCount, approvals,
                   denials, status, stored, streaming, activeStreams>>
    /\ UNCHANGED <<termVars, srvVars, scanVars, host, orphaned>>

\* The server handles an execute request of some other HTTP client.
ServeForeign ==
    /\ execLog[0] < MaxForeign
    /\ ApiExecute(0)
    /\ UNCHANGED <<mode, alive, conversation, nextId, msgCount, approvals,
                   denials, status, stored, streaming, activeStreams, reqs,
                   replies>>
    /\ UNCHANGED <<termVars, srvVars, scanVars, host, orphaned>>

(***************************************************************************)
(* Web mode: the server's event loop.  Node runs every handler and every   *)
(* continuation of an async handler on one thread; execSync returns when   *)
(* the child process has ended, and until then the thread runs nothing     *)
(* else.                                                                   *)
(***************************************************************************)

\* No response stream.
NoChat == [open |-> FALSE, sent |-> 0, up |-> "live", tail |-> <<>>]

\* The thread is free to run a handler or a continuation.
ThreadFree == srvExec = 0

\* The session s posts an execute request (RUN_CMD or RUN_SCRIPT); it waits
\* in the event loop.
PostExecute(s) ==
    /\ mode = "web"
    /\ srvReq[s] = "none"
    /\ srvReq' = [srvReq EXCEPT ![s] = "queued"]
    /\ UNCHANGED <<sessVars, termVars, webVars, srvExec, srvChat, scanVars, host>>

\* app.post('/api/execute') runs for the request of s up to execSync: the
\* child process is started and the thread waits for its end.
ExecSyncCall(s) ==
    /\ mode = "web"
    /\ ThreadFree
    /\ srvReq[s] = "queued"
    /\ srvReq' = [srvReq EXCEPT ![s] = "running"]
    /\ srvExec' = s
    /\ UNCHANGED <<sessVars, termVars, webVars, srvChat, scanVars, host>>

\* The command ends (or its timeout kills it): execSync returns or throws
\* and the handler responds.
ExecSyncReturn(s) ==
    /\ mode = "web"
    /\ srvExec = s
    /\ srvReq' = [srvReq EXCEPT ![s] = "none"]
    /\ srvExec' = 0
    /\ UNCHANGED <<sessVars, termVars, webVars, srvChat, scanVars, host>>

\* app.post('/api/chat') runs for a request of s up to its first await.
ChatPost(s) ==
    /\ mode = "web"
    /\ ThreadFree
    /\ ~srvChat[s].open
    /\ srvChat' = [srvChat EXCEPT ![s] = [NoChat EXCEPT !.open = TRUE]]
    /\ UNCHANGED <<sessVars, termVars, webVars, srvExec, srvReq, scanVars, host>>

\* reader.read() has resolved with a chunk: the loop body forwards it to
\* the client of s (res.write).
ChatChunk(s) ==
    /\ mode = "web"
    /\ ThreadFree
    /\ srvChat[s].open /\ srvChat[s].up = "live"
    /\ srvChat[s].sent < MaxChunks
    /\ srvChat' = [srvChat EXCEPT ![s].sent = @ + 1]
    /\ UNCHANGED <<sessVars, termVars, webVars, srvExec, srvReq, scanVars, host>>

\* reader.read() has resolved with done: res.end().
ChatEnd(s) ==
    /\ mode = "web"
    /\ ThreadFree
    /\ srvChat[s].open /\ srvChat[s].up = "live"
    /\ srvChat' = [srvChat EXCEPT ![s].open = FALSE, ![s].tail = <<"end">>]
    /\ UNCHANGED <<sessVars, termVars, webVars, srvExec, srvReq, scanVars, host>>

\* The connection to the token source of the stream of s is lost: the
\* pending reader.read() will reject.
UpstreamFail(s) ==
    /\ mode = "web"
    /\ srvChat[s].open /\ srvChat[s].up = "live"
    /\ srvChat' = [srvChat EXCEPT ![s].up = "failed"]
    /\ UNCHANGED <<sessVars, termVars, webVars, srvExec, srvReq, scanVars, host>>

\* (Variant: the catch only ends the response.)
ChatErrorSilent(s) ==
    /\ mode = "web"
    /\ ThreadFree
    /\ srvChat[s].open /\ srvChat[s].up = "failed"
    /\ srvChat' = [srvChat EXCEPT ![s].open = FALSE, ![s].tail = <<"end">>]
    /\ UNCHANGED <<sessVars, termVars, webVars, srvExec, srvReq, scanVars, host>>

\* reader.read() has rejected: the catch writes the error as a last event
\* of the stream, with done: true, then the end marker, and res.end().
ChatError(s) ==
    /\ mode = "web"
    /\ ThreadFree
    /\ srvChat[s].open /\ srvChat[s].up = "failed"
    /\ srvChat' = [srvChat EXCEPT ![s].open = FALSE,
                                  ![s].tail = <<"[Stream interrupted]", "[DONE]", "end">>]
    /\ UNCHANGED <<sessVars, termVars, webVars, srvExec, srvReq, scanVars, host>>

SrvNext ==
    \/ \E s \in Sessions : PostExecute(s)
    \/ \E s \in Sessions : ExecSyncCall(s)
    \/ \E s \in Sessions : ExecSyncReturn(s)
    \/ \E s \in Sessions : ChatPost(s)
    \/ \E s \in Sessions : ChatChunk(s)
    \/ \E s \in Sessions : ChatEnd(s)
    \/ \E s \in Sessions : UpstreamFail(s)
    \/ \E s \in Sessions : ChatError(s)

WebNext ==
    \/ SendMsg
    \/ \E n \in 0..MaxActs : WebStreamEnd(n)
    \/ WebStreamError
    \/ Abandon
    \/ \E a \in Ids : ApproveClick(a)
    \/ \E a \in Ids : DenyClick(a)
    \/ \E a \in Ids : RetryClick(a)
    \/ \E out \in ExecOutcomes : ClientComplete(out)
    \/ FetchError
    \/ ServeClient
    \/ ServeForeign

(***************************************************************************)
(* The response scanner: streamChat's display loop and extractActions.     *)
(* A text is a sequence of characters (strings of length one).  The        *)
(* responses of this specification are made of segments: plain text, a     *)
(* tag in the terminator form, a tag in the legacy form.                   *)
(***************************************************************************)

ACT_TYPES == <<"READ_FILE", "RUN_CMD", "RUN_SCRIPT", "WRITE_FILE">>

\* The characters of the names of the action types.
TypeName(type) ==
    CASE type = "READ_FILE" -> <<"R", "E", "A", "D", "_", "F", "I", "L", "E">>
      [] type = "RUN_CMD" -> <<"R", "U", "N", "_", "C", "M", "D">>
      [] type = "RUN_SCRIPT" -> <<"R", "U", "N", "_", "S", "C", "R", "I", "P", "T">>
      [] type = "WRITE_FILE" -> <<"W", "R", "I", "T", "E", "_", "F", "I", "L", "E">>

\* '[ACTION:<type>:' and '[/ACTION]'.
Opener(type) == <<"[", "A", "C", "T", "I", "O", "N", ":">> \o TypeName(type) \o <<":">>
Terminator == <<"[", "/", "A", "C", "T", "I", "O", "N", "]">>

\* '[/ACTION', the head of CLEAN_TAG.
CleanHead == <<"[", "/", "A", "C", "T", "I", "O", "N">>

\* \s, and what trimEnd removes.
IsSpace(ch) == ch = " "

\* The segments of a response.
Plain(t) == [form |-> "text", type |-> "", payload |-> t]
NewTag(type, payload) == [form |-> "new", type |-> type, payload |-> payload]
OldTag(type, payload) == [form |-> "old", type |-> type, payload |-> payload]

\* The start of a tag that the response does not finish.
Partial(t) == [form |-> "partial", type |-> "", payload |-> t]

\* The segments of the responses that are scanned in fragments.
Segments ==
    { Plain(<<"x">>), Plain(<<"[">>),
      NewTag("WRITE_FILE", <<"f", ":", "a">>),
      OldTag("RUN_CMD", <<"l", "s">>) }

SegText(seg) ==
    CASE seg.form = "text" -> seg.payload
      [] seg.form = "new" -> Opener(seg.type) \o seg.payload \o Terminator
      [] seg.form = "old" -> Opener(seg.type) \o seg.payload \o <<"]">>
      [] seg.form = "partial" -> seg.payload

RECURSIVE Render(_)
Render(d) == IF d = <<>> THEN <<>> ELSE SegText(Head(d)) \o Render(Tail(d))

Docs == UNION {[1..n -> Segments] : n \in 0..MaxSegs}

\* The payloads of up to MaxPayload characters, and the responses that are
\* one tag with such a payload.
Payloads == UNION {[1..n -> {"f", ":", " "}] : n \in 1..MaxPayload}
TagDocs ==
    {<<NewTag(ACT_TYPES[k], p)>> : k \in 1..Len(ACT_TYPES), p \in Payloads}
    \cup {<<OldTag(ACT_TYPES[k], p)>> : k \in 1..Len(ACT_TYPES), p \in Payloads}

\* The responses that end in an unterminated tag: a prefix of an opener,
\* an opener with a payload, an opener with a payload and a part of the
\* terminator.
PartialDocs ==
    LET Partials ==
    { Partial(<<"[", "A", "C", "T">>), Partial(<<"[", "A", "C", "T", "I", "O", "N", ":", "R", "E">>),
      Partial(<<"[", "A", "C", "T", "I", "O", "N", ":", "R", "U", "N", "_", "C", "M", "D", ":", "l", "s">>),
      Partial(<<"[", "A", "C", "T", "I", "O", "N", ":", "R", "U", "N", "_", "C", "M", "D", ":", "l", "s", "[", "/", "A", "C", "T">>) }
    IN {<<p>> : p \in Partials} \cup {<<Plain(<<"x">>), p>> : p \in Partials}

\* The length of the longest response.
MaxLen ==
    LET lens == {Len(SegText(seg)) : seg \in Segments}
    IN MaxSegs * (CHOOSE n \in lens : \A m \in lens : m <= n)

\* String.prototype.startsWith / endsWith, and startsWith at a position.
StartsWith(s, p) == Len(p) <= Len(s) /\ SubSeq(s, 1, Len(p)) = p
EndsWith(s, p) == Len(p) <= Len(s) /\ SubSeq(s, Len(s) - Len(p) + 1, Len(s)) = p
At(s, i, p) == i + Len(p) - 1 <= Len(s) /\ SubSeq(s, i, i + Len(p) - 1) = p

\* The type whose opener stands at position i of s; "" when none does.
OpenerAt(s, i) ==
    IF \E k \in 1..Len(ACT_TYPES) : At(s, i, Opener(ACT_TYPES[k]))
    THEN ACT_TYPES[CHOOSE k \in 1..Len(ACT_TYPES) : At(s, i, Opener(ACT_TYPES[k]))]
    ELSE ""

(***************************************************************************)
(* The display loop.  st is [inside, pending, out]: insideAction,          *)
(* pendingBracket and what has been written to the terminal; whole is full *)
(* (the fragment that is being scanned has been added to it already).      *)
(***************************************************************************)
ScanChar(st, ch, whole) ==
    IF st.inside
    THEN IF EndsWith(whole, Terminator) THEN [st EXCEPT !.inside = FALSE] ELSE st
    ELSE LET pb == Append(st.pending, ch) IN
         IF ch = "["
         THEN [st EXCEPT !.pending = <<"[">>]
         ELSE IF StartsWith(pb, <<"[">>)
         THEN IF OpenerAt(pb, 1) # ""
              THEN [st EXCEPT !.inside = TRUE, !.pending = <<>>]
              ELSE IF \/ Len(pb) > 30
                      \/ ~\E k \in 1..Len(ACT_TYPES) : StartsWith(Opener(ACT_TYPES[k]), pb)
              THEN [st EXCEPT !.out = st.out \o pb, !.pending = <<>>]
              ELSE [st EXCEPT !.pending = pb]
         ELSE [st EXCEPT !.out = Append(st.out, ch), !.pending = <<>>]

(***************************************************************************)
(* The regular expressions.  A match is [type, payload, from, to].         *)
(***************************************************************************)
NoMatch == [type |-> "", payload |-> <<>>, from |-> 0, to |-> 0]

\* ACT_RE_NEW at position i: the opener, one character or more, as few as
\* possible, and the terminator.
MatchNewAt(s, i) ==
    LET type == OpenerAt(s, i)
        p == i + Len(Opener(type))
        ends == {j \in (p + 1)..Len(s) : At(s, j, Terminator)}
    IN IF type = "" \/ ends = {} THEN NoMatch
       ELSE LET j == CHOOSE e \in ends : \A f \in ends : e <= f
            IN [type |-> type, payload |-> SubSeq(s, p, j - 1), from |-> i,
                to |-> j + Len(Terminator) - 1]

\* ACT_RE_OLD at position i: the opener, one character or more other than
\* ']', and ']'.
MatchOldAt(s, i) ==
    LET type == OpenerAt(s, i)
        p == i + Len(Opener(type))
        ends == {j \in p..Len(s) : s[j] = "]"}
    IN IF type = "" \/ ends = {} THEN NoMatch
       ELSE LET j == CHOOSE e \in ends : \A f \in ends : e <= f
            IN IF j = p THEN NoMatch
               ELSE [type |-> type, payload |-> SubSeq(s, p, j - 1), from |-> i,
                     to |-> j]

MatchAt(form, s, i) == IF form = "new" THEN MatchNewAt(s, i) ELSE MatchOldAt(s, i)

\* RegExp.prototype.exec with the g flag, called until it returns null:
\* the matches from position i on, each search starting where the match
\* before it ended.
RECURSIVE Matches(_, _, _)
Matches(form, s, i) ==
    IF i > Len(s) THEN <<>>
    ELSE LET m == MatchAt(form, s, i) IN
         IF m = NoMatch THEN Matches(form, s, i + 1)
         ELSE <<m>> \o Matches(form, s, m.to + 1)

\* full.replace(ACT_RE_STRIP, ''): s from position i on without the matches
\* of the terminator form.
RECURSIVE StripNew(_, _)
StripNew(s, i) ==
    IF i > Len(s) THEN <<>>
    ELSE LET m == MatchNewAt(s, i) IN
         IF m = NoMatch THEN <<s[i]>> \o StripNew(s, i + 1)
         ELSE StripNew(s, m.to + 1)

\* String.prototype.trimEnd.
RECURSIVE TrimEnd(_)
TrimEnd(s) ==
    IF s # <<>> /\ IsSpace(s[Len(s)]) THEN TrimEnd(SubSeq(s, 1, Len(s) - 1)) ELSE s

\* s.replace(CLEAN_TAG, ''): a '[/ACTION' with nothing but spaces after it
\* is cut off, from the first such place.
CleanTag(s) ==
    LET cuts == {i \in 1..Len(s) :
                    /\ At(s, i, CleanHead)
                    /\ \A j \in (i + Len(CleanHead))..Len(s) : IsSpace(s[j])}
    IN IF cuts = {} THEN s
       ELSE SubSeq(s, 1, (CHOOSE i \in cuts : \A j \in cuts : i <= j) - 1)

\* String.prototype.indexOf(':'), from 1; 0 when there is none.
IndexOfColon(s) ==
    LET at == {i \in 1..Len(s) : s[i] = ":"}
    IN IF at = {} THEN 0 ELSE CHOOSE i \in at : \A j \in at : i <= j

\* content: null.
Null == <<"null">>

\* (Variant: the payload is split on its last colon.)
LastColon(s) ==
    LET at == {i \in 1..Len(s) : s[i] = ":"}
    IN IF at = {} THEN 0 ELSE CHOOSE i \in at : \A j \in at : i >= j

\* The place where the payload of a WRITE_FILE or RUN_SCRIPT is split.
SplitAt(s) == IndexOfColon(s)

\* The action of a match: { type, target, content }.
ToAction(type, payload) ==
    LET raw == TrimEnd(CleanTag(payload))
        ci == SplitAt(raw)
    IN IF type \in {"WRITE_FILE", "RUN_SCRIPT"} /\ ci > 0
       THEN [type |-> type, target |-> SubSeq(raw, 1, ci - 1),
             content |-> TrimEnd(CleanTag(SubSeq(raw, ci + 1, Len(raw))))]
       ELSE [type |-> type, target |-> raw, content |-> Null]

RECURSIVE ToActions(_)
ToActions(ms) ==
    IF ms = <<>> THEN <<>>
    ELSE <<ToAction(Head(ms).type, Head(ms).payload)>> \o ToActions(Tail(ms))

\* (Variant: the actions of the legacy form are put first.)
extractActionsLegacyFirst(s) ==
    ToActions(Matches("old", StripNew(s, 1), 1)) \o ToActions(Matches("new", s, 1))

\* extractActions(full): the terminator form over the whole text, then the
\* legacy form over the text without the matches of the terminator form.
extractActions(s) ==
    ToActions(Matches("new", s, 1)) \o ToActions(Matches("old", StripNew(s, 1), 1))

(***************************************************************************)
(* The scanner at work on a response that arrives in fragments.            *)
(***************************************************************************)

\* What of the response has not arrived yet.
Rest == SubSeq(text, Len(full) + 1, Len(text))

\* (Variant: the actions are extracted from the text that was displayed.)
ExtractedFromDisplay == extractActions(display)

\* What processResponse extracts when streamChat has returned.
Extracted == extractActions(full)

\* One message of the stream, with a fragment of n characters:
\* full += chunk.
OnChunk(n) ==
    /\ ~done
    /\ chunk = <<>>
    /\ n <= Len(text) - Len(full)
    /\ chunk' = SubSeq(Rest, 1, n)
    /\ full' = full \o chunk'
    /\ UNCHANGED <<doc, text, insideAction, pendingBracket, display, actions, done>>
    /\ UNCHANGED <<sessVars, termVars, webVars, srvVars, host>>

\* for (const ch of chunk): the display loop takes the next character of
\* the fragment.
OnChar ==
    /\ chunk # <<>>
    /\ LET st == ScanChar([inside |-> insideAction, pending |-> pendingBracket,
                           out |-> display], Head(chunk), full)
       IN /\ insideAction' = st.inside
          /\ pendingBracket' = st.pending
          /\ display' = st.out
    /\ chunk' = Tail(chunk)
    /\ UNCHANGED <<doc, text, full, actions, done>>
    /\ UNCHANGED <<sessVars, termVars, webVars, srvVars, host>>

\* The stream ends: the pending text is flushed unless a tag is open,
\* streamChat returns full and processResponse extracts the actions.
OnDone ==
    /\ ~done
    /\ chunk = <<>>
    /\ Len(full) = Len(text)
    /\ display' = IF pendingBracket # <<>> /\ ~insideAction
                  THEN display \o pendingBracket ELSE display
    /\ actions' = Extracted
    /\ done' = TRUE
    /\ UNCHANGED <<doc, text, full, chunk, insideAction, pendingBracket>>
    /\ UNCHANGED <<sessVars, termVars, webVars, srvVars, host>>

\* extractActions on a whole response: what processResponse does with the
\* text that streamChat returns (the display of the text is left out).
OnResponse ==
    /\ ~done
    /\ full = <<>>
    /\ full' = text
    /\ actions' = extractActions(full')
    /\ done' = TRUE
    /\ UNCHANGED <<doc, text, chunk, insideAction, pendingBracket, display>>
    /\ UNCHANGED <<sessVars, termVars, webVars, srvVars, host>>

ScanNext ==
    \/ \E n \in 1..MaxLen : OnChunk(n)
    \/ OnChar
    \/ OnDone

\* streamChat's variables at its start.
ScanReset ==
    /\ full = <<>>
    /\ chunk = <<>>
    /\ insideAction = FALSE
    /\ pendingBracket = <<>>
    /\ display = <<>>
    /\ actions = <<>>
    /\ done = FALSE

(***************************************************************************)
(* The safety gate of src/install.bat: BLOCKED_COMMANDS, the path lists,   *)
(* isCommandBlocked, isPathReadable, isPathWritable.  Commands and paths   *)
(* are sequences of characters.                                            *)
(*                                                                         *)
(* A regular expression is a tree: Lit (a text), Cls (one character of a   *)
(* set), Dot, Space (\s), WordB (\b), Cat, Alt, Star, Plus, Opt.           *)
(* Ends(r, s, i) is the set of the positions where a match of r that       *)
(* starts at position i of s can end (the position after its last          *)
(* character).  With the i flag the characters of the pattern and of the   *)
(* text are compared in upper case.                                        *)
(***************************************************************************)
LowerCase == <<"a", "b", "c", "d", "e", "f", "g", "h", "i", "j", "k", "l", "m", "n", "o", "p", "q", "r", "s", "t", "u", "v", "w", "x", "y", "z">>
UpperCase == <<"A", "B", "C", "D", "E", "F", "G", "H", "I", "J", "K", "L", "M", "N", "O", "P", "Q", "R", "S", "T", "U", "V", "W", "X", "Y", "Z">>
Letters == {LowerCase[n] : n \in 1..26} \cup {UpperCase[n] : n \in 1..26}
WordChars == Letters \cup {"0", "1", "2", "3", "4", "5", "6", "7", "8", "9", "_"}
SpaceChars == {" ", "\t", "\n"}

\* Canonicalize of the i flag: the character in upper case.
ToUpper ==
    [c \in {LowerCase[n] : n \in 1..26} |->
        UpperCase[CHOOSE n \in 1..26 : LowerCase[n] = c]]
Canon(c) == IF c \in DOMAIN ToUpper THEN ToUpper[c] ELSE c
Upper(s) == [n \in 1..Len(s) |-> Canon(s[n])]

Lit(t) == [k |-> "lit", t |-> t]
Cls(cs) == [k |-> "cls", cs |-> cs]
Dot == [k |-> "dot"]
Space == Cls(SpaceChars)
WordB == [k |-> "wordb"]
Cat(rs) == [k |-> "cat", rs |-> rs]
Alt(rs) == [k |-> "alt", rs |-> rs]
Star(r) == [k |-> "star", r |-> r]
Plus(r) == Cat(<<r, Star(r)>>)
Opt(r) == Alt(<<r, Cat(<<>>)>>)

\* The pattern r with its characters in upper case.
RECURSIVE Fold(_)
Fold(r) ==
    CASE r.k = "lit" -> Lit(Upper(r.t))
      [] r.k = "cls" -> Cls({Canon(c) : c \in r.cs})
      [] r.k = "cat" -> Cat([n \in 1..Len(r.rs) |-> Fold(r.rs[n])])
      [] r.k = "alt" -> Alt([n \in 1..Len(r.rs) |-> Fold(r.rs[n])])
      [] r.k = "star" -> Star(Fold(r.r))
      [] OTHER -> r

RECURSIVE Ends(_, _, _)
RECURSIVE StarEnds(_, _, _)
Ends(r, s, i) ==
    CASE r.k = "lit" ->
           IF i + Len(r.t) - 1 <= Len(s) /\ SubSeq(s, i, i + Len(r.t) - 1) = r.t
           THEN {i + Len(r.t)} ELSE {}
      [] r.k = "cls" -> IF i <= Len(s) /\ s[i] \in r.cs THEN {i + 1} ELSE {}
      [] r.k = "dot" -> IF i <= Len(s) /\ s[i] # "\n" THEN {i + 1} ELSE {}
      [] r.k = "wordb" ->
           LET IsWordAt(j) == j >= 1 /\ j <= Len(s) /\ s[j] \in WordChars
           IN IF IsWordAt(i - 1) # IsWordAt(i) THEN {i} ELSE {}
      [] r.k = "cat" ->
           IF r.rs = <<>> THEN {i}
           ELSE UNION {Ends(Cat(Tail(r.rs)), s, j) : j \in Ends(Head(r.rs), s, i)}
      [] r.k = "alt" -> UNION {Ends(r.rs[n], s, i) : n \in 1..Len(r.rs)}
      [] r.k = "star" -> StarEnds(r.r, s, {i})

\* The positions reached from the positions at by matches of r, any number
\* of them.
StarEnds(r, s, at) ==
    LET more == at \cup UNION {Ends(r, s, j) : j \in at}
    IN IF more = at THEN at ELSE StarEnds(r, s, more)

\* (Variant: every rule has the g flag.)
RegExpGlobal(re, flags) ==
    [re |-> IF "i" \in flags THEN Fold(re) ELSE re, fold |-> "i" \in flags,
     global |-> TRUE]

\* A RegExp object: its pattern and its flags; lastIndex is its state.
RegExp(re, flags) ==
    [re |-> IF "i" \in flags THEN Fold(re) ELSE re, fold |-> "i" \in flags,
     global |-> "g" \in flags]

Max(S) == CHOOSE n \in S : \A m \in S : m <= n
Min(S) == CHOOSE n \in S : \A m \in S : n <= m

\* RegExp.prototype.test(s) on an object whose lastIndex is li: whether s
\* has a match and the lastIndex after the call.  Without the g flag the
\* search starts at the first character and lastIndex is left alone.
Test(rx, s, li) ==
    LET t == IF rx.fold THEN Upper(s) ELSE s
        from == IF rx.global THEN li + 1 ELSE 1
        found == \E i \in from..(Len(t) + 1) : Ends(rx.re, t, i) # {}
    IN IF ~rx.global THEN [found |-> found, lastIndex |-> li]
       ELSE IF ~found THEN [found |-> FALSE, lastIndex |-> 0]
       ELSE [found |-> TRUE,
             lastIndex |-> Max(Ends(rx.re, t,
                                    Min({i \in from..(Len(t) + 1) :
                                           Ends(rx.re, t, i) # {}}))) - 1]

BLOCKED_COMMANDS ==
    <<
      \* /rm\s+(-[a-zA-Z]*f|-[a-zA-Z]*r|--force|--recursive).*\//i
      RegExp(Cat(<<Lit(<<"r", "m">>), Plus(Space), Alt(<<Cat(<<Lit(<<"-">>),
          Star(Cls(Letters)), Lit(<<"f">>)>>), Cat(<<Lit(<<"-">>),
          Star(Cls(Letters)), Lit(<<"r">>)>>), Lit(<<"-", "-", "f", "o", "r",
          "c", "e">>), Lit(<<"-", "-", "r", "e", "c", "u", "r", "s", "i",
          "v", "e">>)>>), Star(Dot), Lit(<<"/">>)>>), {"i"}),
      \* /rm\s+-rf\s/i
      RegExp(Cat(<<Lit(<<"r", "m">>), Plus(Space), Lit(<<"-", "r", "f">>),
          Space>>), {"i"}),
      \* /mkfs/i
      RegExp(Lit(<<"m", "k", "f", "s">>), {"i"}),
      \* /dd\s+if=/i
      RegExp(Cat(<<Lit(<<"d", "d">>), Plus(Space), Lit(<<"i", "f", "=">>)>>),
          {"i"}),
      \* /chmod\s+(-R\s+)?777\s+\//i
      RegExp(Cat(<<Lit(<<"c", "h", "m", "o", "d">>), Plus(Space),
          Opt(Cat(<<Lit(<<"-", "R">>), Plus(Space)>>)), Lit(<<"7", "7",
          "7">>), Plus(Space), Lit(<<"/">>)>>), {"i"}),
      \* /chown\s+-R\s+.*\s+\//i
      RegExp(Cat(<<Lit(<<"c", "h", "o", "w", "n">>), Plus(Space), Lit(<<"-",
          "R">>), Plus(Space), Star(Dot), Plus(Space), Lit(<<"/">>)>>),
          {"i"}),
      \* />\s*\/dev\/sd/i
      RegExp(Cat(<<Lit(<<">">>), Star(Space), Lit(<<"/", "d", "e", "v", "/",
          "s", "d">>)>>), {"i"}),
      \* /:(){ :\|:& };:/
      RegExp(Cat(<<Lit(<<":">>), Cat(<<>>), Lit(<<"{", " ", ":", "|", ":",
          "&", " ", "}", ";", ":">>)>>), {}),
      \* /shutdown/i
      RegExp(Lit(<<"s", "h", "u", "t", "d", "o", "w", "n">>), {"i"}),
      \* /reboot/i
      RegExp(Lit(<<"r", "e", "b", "o", "o", "t">>), {"i"}),
      \* /init\s+[06]/i
      RegExp(Cat(<<Lit(<<"i", "n", "i", "t">>), Plus(Space), Cls({"0",
          "6"})>>), {"i"}),
      \* /systemctl\s+(poweroff|halt|reboot)/i
      RegExp(Cat(<<Lit(<<"s", "y", "s", "t", "e", "m", "c", "t", "l">>),
          Plus(Space), Alt(<<Lit(<<"p", "o", "w", "e", "r", "o", "f", "f">>),
          Lit(<<"h", "a", "l", "t">>), Lit(<<"r", "e", "b", "o", "o",
          "t">>)>>)>>), {"i"}),
      \* /wipefs/i
      RegExp(Lit(<<"w", "i", "p", "e", "f", "s">>), {"i"}),
      \* /fdisk/i
      RegExp(Lit(<<"f", "d", "i", "s", "k">>), {"i"}),
      \* /parted/i
      RegExp(Lit(<<"p", "a", "r", "t", "e", "d">>), {"i"}),
      \* /\bformat\b.*\/(dev|disk)/i
      RegExp(Cat(<<WordB, Lit(<<"f", "o", "r", "m", "a", "t">>), WordB,
          Star(Dot), Lit(<<"/">>), Alt(<<Lit(<<"d", "e", "v">>), Lit(<<"d",
          "i", "s", "k">>)>>)>>), {"i"}),
      \* /curl.*\|\s*(bash|sh|zsh)/i
      RegExp(Cat(<<Lit(<<"c", "u", "r", "l">>), Star(Dot), Lit(<<"|">>),
          Star(Space), Alt(<<Lit(<<"b", "a", "s", "h">>), Lit(<<"s", "h">>),
          Lit(<<"z", "s", "h">>)>>)>>), {"i"}),
      \* /wget.*\|\s*(bash|sh|zsh)/i
      RegExp(Cat(<<Lit(<<"w", "g", "e", "t">>), Star(Dot), Lit(<<"|">>),
          Star(Space), Alt(<<Lit(<<"b", "a", "s", "h">>), Lit(<<"s", "h">>),
          Lit(<<"z", "s", "h">>)>>)>>), {"i"}),
      \* /python.*-c.*import\s+os.*system/i
      RegExp(Cat(<<Lit(<<"p", "y", "t", "h", "o", "n">>), Star(Dot),
          Lit(<<"-", "c">>), Star(Dot), Lit(<<"i", "m", "p", "o", "r",
          "t">>), Plus(Space), Lit(<<"o", "s">>), Star(Dot), Lit(<<"s", "y",
          "s", "t", "e", "m">>)>>), {"i"}),
      \* /iptables\s+-F/i
      RegExp(Cat(<<Lit(<<"i", "p", "t", "a", "b", "l", "e", "s">>),
          Plus(Space), Lit(<<"-", "F">>)>>), {"i"}),
      \* /ufw\s+disable/i
      RegExp(Cat(<<Lit(<<"u", "f", "w">>), Plus(Space), Lit(<<"d", "i", "s",
          "a", "b", "l", "e">>)>>), {"i"}),
      \* /passwd\s+root/i
      RegExp(Cat(<<Lit(<<"p", "a", "s", "s", "w", "d">>), Plus(Space),
          Lit(<<"r", "o", "o", "t">>)>>), {"i"}),
      \* /userdel/i
      RegExp(Lit(<<"u", "s", "e", "r", "d", "e", "l">>), {"i"}),
      \* /groupdel/i
      RegExp(Lit(<<"g", "r", "o", "u", "p", "d", "e", "l">>), {"i"}),
      \* /mv\s+\/etc/i
      RegExp(Cat(<<Lit(<<"m", "v">>), Plus(Space), Lit(<<"/", "e", "t",
          "c">>)>>), {"i"}),
      \* /rm\s+\/etc/i
      RegExp(Cat(<<Lit(<<"r", "m">>), Plus(Space), Lit(<<"/", "e", "t",
          "c">>)>>), {"i"}),
      \* /truncate.*\/etc/i
      RegExp(Cat(<<Lit(<<"t", "r", "u", "n", "c", "a", "t", "e">>),
          Star(Dot), Lit(<<"/", "e", "t", "c">>)>>), {"i"}),
      \* /echo\s+.*>\s*\/etc\/(passwd|shadow|sudoers|fstab)/i
      RegExp(Cat(<<Lit(<<"e", "c", "h", "o">>), Plus(Space), Star(Dot),
          Lit(<<">">>), Star(Space), Lit(<<"/", "e", "t", "c", "/">>),
          Alt(<<Lit(<<"p", "a", "s", "s", "w", "d">>), Lit(<<"s", "h", "a",
          "d", "o", "w">>), Lit(<<"s", "u", "d", "o", "e", "r", "s">>),
          Lit(<<"f", "s", "t", "a", "b">>)>>)>>), {"i"})
    >>


(***************************************************************************)
(* The state of the gate and of the host.  The variable host keeps, of the *)
(* files, the directories and the lastIndex values, those that differ from *)
(* the start; files, dirs and lastIndex give the whole.                    *)
(***************************************************************************)
\* No such file.
NoFile == <<"ENOENT">>

\* The files of the host at the start (path -> content), and its
\* directories.
HostFiles ==
    LET fs == { [path |-> <<"/", "t", "m", "p", "/", "x">>, data |-> <<"o">>],
      [path |-> <<"/", "t", "m", "p", "/", "d", "/", "y">>, data |-> <<"p">>],
      [path |-> <<"/", "t", "m", "p", "/", "d", "_", "_", "y">>, data |-> <<"q">>],
      [path |-> <<"/", "t", "m", "p", "/", "s", ".", "s", "h">>, data |-> <<"#">>],
      [path |-> <<"/", "t", "m", "p", "/", "a", ".", "p", "s", "1">>, data |-> <<"#">>],
      [path |-> <<"/", "t", "m", "p", "/", "b", ".", "b", "a", "t">>, data |-> <<"#">>],
      [path |-> <<"/", "t", "m", "p", "/", "c", ".", "C", "M", "D">>, data |-> <<"#">>],
      [path |-> <<"/", "e", "t", "c", "/", "s", "h", "a", "d", "o", "w">>, data |-> <<"s">>],
      [path |-> <<"/", "t", "m", "p", "/", "e", "/", "z">>, data |-> NoFile],
      [path |-> <<"/", "r", "o", "o", "t", "/", "k">>, data |-> NoFile],
      [path |-> <<"/", "r", "o", "o", "t", "/", "q", "/", "k">>, data |-> NoFile],
      [path |-> <<"/", "h", "o", "m", "e", "/", "u", "/", "d", "c", "/", "n">>, data |-> NoFile] }
    IN [q \in {f.path : f \in fs} |-> (CHOOSE f \in fs : f.path = q).data]

HostDirs == { <<"/", "t", "m", "p">>, <<"/", "t", "m", "p", "/", "d">>, <<"/", "e", "t", "c">>, <<"/", "r", "o", "o", "t">>, <<"/", "h", "o", "m", "e", "/", "u", "/", "d", "c">> }

cmd == host.cmd              \* the command under check
filepath == host.filepath    \* the path under check
verdict == host.verdict      \* what the checks have answered
\* lastIndex of the RegExp objects of BLOCKED_COMMANDS
lastIndex ==
    [k \in 1..Len(BLOCKED_COMMANDS) |->
        IF k \in DOMAIN host.lastIndex THEN host.lastIndex[k] ELSE 0]
\* path -> content of the file, NoFile when there is none
files ==
    [q \in DOMAIN HostFiles |->
        IF q \in DOMAIN host.files THEN host.files[q] ELSE HostFiles[q]]
dirs == HostDirs \cup host.dirs   \* the directories
backups == host.backups      \* the files of BACKUP_DIR: name, timestamp, content
clock == host.clock          \* the time, in milliseconds
spawned == host.spawned      \* the command lines given to execSync, oldest first
reads == host.reads          \* the paths given to readFileSync
result == host.result        \* what executeAction returned last
shown == host.shown          \* the results written to the terminal
fsVars == <<files, dirs, backups, clock, spawned, reads, result, shown>>

\* The gate and the host as the code works on them, and as host keeps them.
Host == [host EXCEPT !.lastIndex = lastIndex, !.files = files, !.dirs = dirs]
Kept(h) ==
    [h EXCEPT
       !.lastIndex = [k \in {j \in DOMAIN @ : @[j] # 0} |-> @[k]],
       !.files = [q \in {r \in DOMAIN @ : @[r] # HostFiles[r]} |-> @[q]],
       !.dirs = @ \ HostDirs]

\* BLOCKED_COMMANDS.some(pattern => pattern.test(cmd)) from rule k on: the
\* rules are tested in order up to the first one that matches.
RECURSIVE SomeFrom(_, _, _)
SomeFrom(k, c, li) ==
    IF k > Len(BLOCKED_COMMANDS) THEN [blocked |-> FALSE, lastIndex |-> li]
    ELSE LET t == Test(BLOCKED_COMMANDS[k], c, li[k])
             li2 == [li EXCEPT ![k] = t.lastIndex]
         IN IF t.found THEN [blocked |-> TRUE, lastIndex |-> li2]
            ELSE SomeFrom(k + 1, c, li2)

isCommandBlocked(c) == SomeFrom(1, c, lastIndex).blocked

DEFAULT_READ_PATHS ==
    << <<"/", "e", "t", "c", "/">>,
       <<"/", "v", "a", "r", "/", "l", "o", "g", "/">>,
       <<"/", "v", "a", "r", "/", "l", "i", "b", "/">>,
       <<"/", "t", "m", "p", "/">>,
       <<"/", "h", "o", "m", "e", "/">>,
       <<"/", "o", "p", "t", "/">>,
       <<"/", "u", "s", "r", "/", "l", "o", "c", "a", "l", "/", "e", "t", "c", "/">>,
       <<"/", "p", "r", "o", "c", "/", "c", "p", "u", "i", "n", "f", "o">>,
       <<"/", "p", "r", "o", "c", "/", "m", "e", "m", "i", "n", "f", "o">>,
       <<"/", "p", "r", "o", "c", "/", "l", "o", "a", "d", "a", "v", "g">>,
       <<"/", "p", "r", "o", "c", "/", "v", "e", "r", "s", "i", "o", "n">>,
       <<"/", "p", "r", "o", "c", "/", "u", "p", "t", "i", "m", "e">>,
       <<"/", "p", "r", "o", "c", "/", "n", "e", "t", "/">> >>


DEFAULT_WRITE_PATHS == << <<"/", "t", "m", "p", "/">> >>

\* config.openclaw_dir and process.cwd() of the run.
OPENCLAW_DIR == <<"/", "o", "p", "t", "/", "o", "p", "e", "n", "c", "l", "a", "w">>
Cwd == <<"/", "h", "o", "m", "e", "/", "u", "/", "d", "c">>

\* The value of a field that a JSON object does not have (written as a
\* list, to stand among lists of paths).
Undefined == << <<"undefined">> >>

\* The read_paths and write_paths of the config file at the start (it has
\* none) and the path lists built from it.
StartConfig ==
    [read_paths |-> Undefined, write_paths |-> Undefined,
     read |-> DEFAULT_READ_PATHS \o <<OPENCLAW_DIR>>,
     write |-> DEFAULT_WRITE_PATHS \o <<Cwd, OPENCLAW_DIR>>]

\* The config file and the path lists in force, as POST /api/config has
\* left them.
Config == IF host.config = {} THEN StartConfig ELSE CHOOSE c \in host.config : TRUE

SAFE_READ_PATHS == Config.read
SAFE_WRITE_PATHS == Config.write

\* (Variant: a path is allowed when it holds an allowed prefix anywhere.)
Includes(s, p) == \E i \in 1..(Len(s) + 1) : At(s, i, p)

PrefixOf(s, p) == StartsWith(s, p)

\* (Variants: the path checks allow every path.)
AnyPathReadable(p) == TRUE
AnyPathWritable(p) == TRUE

isPathReadable(p) ==
    \E paths \in {SAFE_READ_PATHS} : \E k \in 1..Len(paths) : PrefixOf(p, paths[k])

isPathWritable(p) ==
    \E paths \in {SAFE_WRITE_PATHS} : \E k \in 1..Len(paths) : PrefixOf(p, paths[k])

(***************************************************************************)
(* The safety gate at work on a command and a path.                        *)
(***************************************************************************)
\* The commands given to the check: each command line alone, after 'sudo '
\* and before ' ; ls'.
Commands ==
    LET Wrapped(c) == {c, <<"s", "u", "d", "o", " ">> \o c, c \o <<" ", ";", " ", "l", "s">>}
    IN UNION {Wrapped(c) : c \in
        { <<"r", "m", " ", "-", "r", "f", " ", "/">>, <<"l", "s", " ", "-", "l", "a", " ", "/", "t", "m", "p">>, <<":", "(", ")", "{", " ", ":", "|", ":", "&", " ", "}", ";", ":">>, <<":", "{", " ", ":", "|", ":", "&", " ", "}", ";", ":">>,
          <<"R", "M", " ", "-", "R", "F", " ", "/">>, <<"r", "m", " ", "n", "o", "t", "e", "s", ".", "t", "x", "t">>, <<"c", "a", "t", " ", "/", "e", "t", "c", "/", "p", "a", "s", "s", "w", "d">>, <<"m", "k", "f", "s", ".", "e", "x", "t", "4", " ", "/", "d", "e", "v", "/", "s", "d", "a", "1">>,
          <<"c", "u", "r", "l", " ", "h", "t", "t", "p", ":", "/", "/", "x", " ", "|", " ", "s", "h">>, <<"e", "c", "h", "o", " ", "h", "i">>, <<"r", "e", "f", "o", "r", "m", "a", "t", " ", "/", "d", "e", "v">>, <<"f", "o", "r", "m", "a", "t", " ", "/", "d", "e", "v">>,
          <<"i", "n", "i", "t", " ", "0">>, <<"c", "h", "m", "o", "d", " ", "-", "R", " ", "7", "7", "7", " ", "/">> }}

GatePaths ==
    { <<"/", "e", "t", "c", "/", "s", "h", "a", "d", "o", "w">>, <<"/", "t", "m", "p", "/", "x">>, <<"/", "t", "m", "p">>, <<"/", "t", "m", "p", "x">>, <<"/", "e", "t", "c">>, <<"/", "t", "m", "p", "/", ".", ".", "/", "e", "t", "c", "/", "s", "h", "a", "d", "o", "w">>,
      <<"/", "r", "o", "o", "t", "/", "k">>, <<"/", "r", "o", "o", "t", "/", "t", "m", "p", "/", "k">>, <<"/", "o", "p", "t", "/", "o", "p", "e", "n", "c", "l", "a", "w", "/", "c">>, <<"/", "h", "o", "m", "e", "/", "u", "/", "d", "c", "/", "n">>,
      <<"/", "p", "r", "o", "c", "/", "c", "p", "u", "i", "n", "f", "o">>, <<"e", "t", "c", "/", "s", "h", "a", "d", "o", "w">>, <<"/", "v", "a", "r", "/", "l", "o", "g", "/", "a">>, <<"/", "E", "T", "C", "/", "s", "h", "a", "d", "o", "w">>, <<>> }

YesNo(b) == IF b THEN "yes" ELSE "no"

CheckCommand ==
    /\ \E t \in {SomeFrom(1, cmd, lastIndex)} :
          host' = Kept([Host EXCEPT !.verdict.blocked = YesNo(t.blocked),
                                    !.lastIndex = t.lastIndex])
    /\ UNCHANGED <<sessVars, termVars, webVars, srvVars, scanVars>>

CheckReadable ==
    /\ host' = [host EXCEPT !.verdict.readable = YesNo(isPathReadable(filepath))]
    /\ UNCHANGED <<sessVars, termVars, webVars, srvVars, scanVars>>

CheckWritable ==
    /\ host' = [host EXCEPT !.verdict.writable = YesNo(isPathWritable(filepath))]
    /\ UNCHANGED <<sessVars, termVars, webVars, srvVars, scanVars>>

GateNext ==
    \/ CheckCommand
    \/ CheckReadable
    \/ CheckWritable

\* The bodies of the requests to POST /api/config, as far as the path
\* lists go: each list is absent or given, the empty list included.
Updates ==
    [read_paths : {Undefined, <<>>, <<<<"/", "t", "m", "p", "/">>>>, <<<<"/", "r", "o", "o", "t", "/">>, <<"/", "e", "t", "c", "/">>>>},
     write_paths : {Undefined, <<<<"/", "t", "m", "p", "/">>>>, <<<<"/", "r", "o", "o", "t", "/">>>>}]

\* (Variant: the write list in force is left as it was.)
PostConfigReadOnly(u) ==
    /\ host' = [host EXCEPT !.config =
                  {[read_paths |-> IF u.read_paths # Undefined THEN u.read_paths ELSE Config.read_paths,
                    write_paths |-> IF u.write_paths # Undefined THEN u.write_paths ELSE Config.write_paths,
                    read |-> IF u.read_paths # Undefined THEN u.read_paths ELSE Config.read,
                    write |-> Config.write]}]
    /\ UNCHANGED <<sessVars, termVars, webVars, srvVars, scanVars>>

\* app.post('/api/config'): the fields given are set in the config read
\* from the file, the file is written, and the lists given are put in
\* force (a list, the empty one too, is truthy).  The handler has no await: no other handler runs inside it.
\* When the file cannot be written nothing is assigned.
PostConfig(u) ==
    /\ \E saved \in BOOLEAN :
          host' = IF ~saved THEN host
                  ELSE [host EXCEPT !.config =
                  {[read_paths |-> IF u.read_paths # Undefined THEN u.read_paths ELSE Config.read_paths,
                    write_paths |-> IF u.write_paths # Undefined THEN u.write_paths ELSE Config.write_paths,
                    read |-> IF u.read_paths # Undefined THEN u.read_paths ELSE Config.read,
                    write |-> IF u.write_paths # Undefined THEN u.write_paths ELSE Config.write]}]
    /\ UNCHANGED <<sessVars, termVars, webVars, srvVars, scanVars>>

\* Requests to the server: reloads of the configuration and the path
\* checks of execute requests.
ConfigNext ==
    \/ \E u \in Updates : PostConfig(u)
    \/ CheckReadable
    \/ CheckWritable

(***************************************************************************)
(* The executor: executeAction of src/terminal.mjs (the handler of POST    *)
(* /api/execute in src/install.bat has the same body) on a host with a     *)
(* few files.  A file's content is a sequence of characters.               *)
(***************************************************************************)

\* join(__dirname, '.doctorclaw-backups')
BACKUP_DIR == <<"/", "h", "o", "m", "e", "/", "u", "/", "d", "c", "/", ".", "d", "o", "c", "t", "o", "r", "c", "l", "a", "w", "-", "b", "a", "c", "k", "u", "p", "s">>

\* The actions the model proposes and the user approves.
Act(type, target, content) == [type |-> type, target |-> target, content |-> content]

Proposals ==
    { Act("READ_FILE", <<"/", "t", "m", "p", "/", "x">>, Null),
      Act("READ_FILE", <<"/", "r", "o", "o", "t", "/", "k">>, Null),
      Act("READ_FILE", <<"/", "t", "m", "p", "/", "e", "/", "z">>, Null),
      Act("RUN_CMD", <<"l", "s", " ", "-", "l", "a", " ", "/", "t", "m", "p">>, Null),
      Act("RUN_CMD", <<"r", "m", " ", "-", "r", "f", " ", "/">>, Null),
      Act("RUN_CMD", <<":", "(", ")", "{", " ", ":", "|", ":", "&", " ", "}", ";", ":">>, Null),
      Act("RUN_SCRIPT", <<"/", "t", "m", "p", "/", "s", ".", "s", "h">>, Null),
      Act("RUN_SCRIPT", <<"/", "t", "m", "p", "/", "s", ".", "s", "h">>, <<"-", "v">>),
      Act("RUN_SCRIPT", <<"/", "t", "m", "p", "/", "s", ".", "s", "h">>, <<";", " ", "r", "m", " ", "-", "r", "f", " ", "/">>),
      Act("RUN_SCRIPT", <<"/", "r", "o", "o", "t", "/", "k">>, Null),
      Act("RUN_SCRIPT", <<"/", "t", "m", "p", "/", "e", "/", "z">>, Null),
      Act("WRITE_FILE", <<"/", "t", "m", "p", "/", "x">>, <<"a">>),
      Act("WRITE_FILE", <<"/", "t", "m", "p", "/", "x">>, Null),
      Act("WRITE_FILE", <<"/", "t", "m", "p", "/", "d", "/", "y">>, <<"a">>),
      Act("WRITE_FILE", <<"/", "t", "m", "p", "/", "d", "_", "_", "y">>, <<"a">>),
      Act("WRITE_FILE", <<"/", "t", "m", "p", "/", "e", "/", "z">>, <<"a">>),
      Act("WRITE_FILE", <<"/", "r", "o", "o", "t", "/", "q", "/", "k">>, <<"a">>),
      Act("WRITE_FILE", <<"n">>, <<"a">>),
      Act("DELETE_FILE", <<"/", "t", "m", "p", "/", "x">>, Null) }

\* The position of the last c in s; 0 when there is none.
LastIndexOf(s, c) ==
    LET at == {i \in 1..Len(s) : s[i] = c}
    IN IF at = {} THEN 0 ELSE Max(at)

\* path.dirname, for a path without a '/' at its end.
DirName(p) ==
    LET i == LastIndexOf(p, "/")
    IN IF i = 0 THEN <<".">> ELSE IF i = 1 THEN <<"/">> ELSE SubSeq(p, 1, i - 1)

\* The directories mkdirSync(dir, { recursive: true }) makes sure of.
RECURSIVE WithParents(_)
WithParents(dir) ==
    IF Len(dir) <= 1 THEN {} ELSE {dir} \cup WithParents(DirName(dir))

\* The command line of a script, by its extension
\* target.split('.').pop().toLowerCase() (compared in upper case here).
Shell(target) ==
    LET ext == Upper(SubSeq(target, LastIndexOf(target, ".") + 1, Len(target)))
    IN
    IF ext = <<"P", "S", "1">>
    THEN <<"p", "o", "w", "e", "r", "s", "h", "e", "l", "l", " ", "-", "E", "x", "e", "c", "u", "t", "i", "o", "n", "P", "o", "l", "i", "c", "y", " ", "B", "y", "p", "a", "s", "s", " ", "-", "F", "i", "l", "e", " ", "\"">> \o target \o <<"\"">>
    ELSE IF ext \in {<<"B", "A", "T">>, <<"C", "M", "D">>}
    THEN <<"c", "m", "d", " ", "/", "c", " ", "\"">> \o target \o <<"\"">>
    ELSE <<"b", "a", "s", "h", " ", "\"">> \o target \o <<"\"">>

\* content ? `${shell} ${content}` : shell
FullCmd(target, content) ==
    IF content # Null /\ content # <<>>
    THEN Shell(target) \o <<" ">> \o content
    ELSE Shell(target)

\* (Variant: the check of a script looks at the command line without the
\* arguments.)
ShellOnly(target, content) == Shell(target)

\* What the command check of a script is applied to.
Checked(target, content) == FullCmd(target, content)

\* existsSync
Exists(fs, ds, p) == (p \in DOMAIN fs /\ fs[p] # NoFile) \/ p \in ds

\* filepath.replace(/\//g, '__')
RECURSIVE Encode(_)
Encode(p) ==
    IF p = <<>> THEN <<>>
    ELSE (IF Head(p) = "/" THEN <<"_", "_">> ELSE <<Head(p)>>) \o Encode(Tail(p))

Result(success, kind, txt) == [success |-> success, kind |-> kind, text |-> txt]

\* An outcome of executeAction: its return value and the host after it.
Outcome(h, r) == [host |-> h, result |-> r]

\* backupFile(p) on the host h at the time now: the host after it
\* and whether a backup was made.
backupFile(h, p, now) ==
    IF ~Exists(h.files, h.dirs, p) THEN [host |-> h, made |-> FALSE]
    ELSE [host |-> [h EXCEPT !.dirs = @ \cup WithParents(BACKUP_DIR),
                             !.backups =
                                {b \in @ : ~(b.name = Encode(p) /\ b.time = now)}
                                \cup {[name |-> Encode(p), time |-> now,
                                       data |-> h.files[p]]}],
          made |-> TRUE]

\* (Variant: the backup is taken after the file has been written.)
WriteThenBackup(h, target, content, now) ==
    IF content = Null THEN h
    ELSE backupFile([h EXCEPT !.files[target] = content], target, now).host

\* backupFile and writeFileSync(target, content): the host after them, as
\* far as they get.  writeFileSync throws on a content that is null, the
\* file untouched.
BackupThenWrite(h, target, content, now) ==
    LET b == backupFile(h, target, now).host
    IN IF content = Null THEN b ELSE [b EXCEPT !.files[target] = content]

\* (Variant: execSync is called without a try of its own, its error goes to
\* the catch of executeAction.)
SpawnUncaught(h, line) ==
    {Outcome([h EXCEPT !.spawned = Append(@, line)], r) :
        r \in {Result(TRUE, "output", <<"o">>), Result(FALSE, "error", <<"e">>),
                Result(FALSE, "error", <<"m">>)}}

\* execSync(line): the process is run; it ends with exit code 0, with or
\* without output, or execSync throws (exit code not 0, timeout, output
\* over maxBuffer) with what was captured of stderr and stdout.  The
\* result is output || '(no output)', or
\* execErr.stderr || execErr.stdout || execErr.message.
\* The same, the error of execSync leaving the executor: no result is
\* returned for a command that fails.
SpawnEscapes(h, line) ==
    {Outcome([h EXCEPT !.spawned = Append(@, line)], Result(TRUE, "output", <<"o">>))}

Spawn(h, line) ==
    LET Or(a, b) == IF a # <<>> THEN a ELSE b
        ends == { [ok |-> TRUE, out |-> <<>>, err |-> <<>>],
                  [ok |-> FALSE, out |-> <<"o">>, err |-> <<"e">>],
                  [ok |-> FALSE, out |-> <<>>, err |-> <<>>] }
    IN {Outcome([h EXCEPT !.spawned = Append(@, line)],
                IF e.ok
                THEN Result(TRUE, "output", Or(e.out, <<"(", "n", "o", " ", "o", "u", "t", "p", "u", "t", ")">>))
                ELSE Result(FALSE, "exec error", Or(e.err, Or(e.out, <<"m">>)))) :
           e \in ends}

\* What executeAction can return, and the host it leaves, on the host h0 at
\* the time now.
executeAction(h0, type, rawTarget, content, now) ==
    LET target == IF type # "RUN_CMD" /\ rawTarget # <<>> /\ ~StartsWith(rawTarget, <<"/">>)
                  THEN Cwd \o <<"/">> \o rawTarget ELSE rawTarget
    IN
    CASE type = "READ_FILE" ->
           IF ~isPathReadable(target)
           THEN {Outcome(h0, Result(FALSE, "access denied", target))}
           ELSE IF ~Exists(h0.files, h0.dirs, target)
           THEN {Outcome(h0, Result(FALSE, "not found", target))}
           ELSE {Outcome([h0 EXCEPT !.reads = @ \cup {target}],
                         Result(TRUE, "data", h0.files[target]))}
      [] type = "RUN_CMD" ->
           LET Gate(t) ==
                 LET h == [h0 EXCEPT !.lastIndex = t.lastIndex]
                 IN IF t.blocked THEN {Outcome(h, Result(FALSE, "blocked", target))}
                    ELSE Spawn(h, target)
           IN Gate(SomeFrom(1, target, h0.lastIndex))
      [] type = "RUN_SCRIPT" ->
           IF ~isPathReadable(target)
           THEN {Outcome(h0, Result(FALSE, "access denied", target))}
           ELSE IF ~Exists(h0.files, h0.dirs, target)
           THEN {Outcome(h0, Result(FALSE, "not found", target))}
           ELSE LET Gate(t) ==
                      LET h == [h0 EXCEPT !.lastIndex = t.lastIndex]
                      IN IF t.blocked THEN {Outcome(h, Result(FALSE, "blocked", <<>>))}
                         ELSE Spawn(h, FullCmd(target, content))
                IN Gate(SomeFrom(1, Checked(target, content), h0.lastIndex))
      [] type = "WRITE_FILE" ->
           IF ~isPathWritable(target)
           THEN {Outcome(h0, Result(FALSE, "access denied", target))}
           ELSE LET dir == DirName(target)
                    h1 == IF Exists(h0.files, h0.dirs, dir) THEN h0
                          ELSE [h0 EXCEPT !.dirs = @ \cup WithParents(dir)]
                    h2 == BackupThenWrite(h1, target, content, now)
                IN IF content = Null
                   THEN {Outcome(h2, Result(FALSE, "error", <<>>))}
                   ELSE IF backupFile(h1, target, now).made
                   THEN {Outcome(h2, Result(TRUE, "written, backup saved", Encode(target)))}
                   ELSE {Outcome(h2, Result(TRUE, "created", target))}
      [] OTHER -> {Outcome(h0, Result(FALSE, "unknown action type", <<>>))}

\* s.slice(0, n) with a mark, when s is longer than n.
Truncated(s, n) == IF Len(s) > n THEN SubSeq(s, 1, n) \o <<"...">> ELSE s

MAX_SHOWN == 2000
MAX_RESULT == 4000

\* The message that feeds a result back into the conversation.
ExecMsg(act, r) ==
    [role |-> "user", kind |-> "result", act |-> act, ok |-> r.success,
     why |-> r.kind, text |-> Truncated(r.text, MAX_RESULT)]

\* processResponse, the user having approved the action act: the action is
\* executed, its result shown and pushed to the conversation.
Approved(act) ==
    /\ Len(conversation) < MaxRuns
    /\ \E out \in executeAction(Host, act.type, act.target, act.content, clock) :
          /\ host' = Kept([out.host EXCEPT
                             !.result = out.result,
                             !.shown = Append(@, [out.result EXCEPT
                                                    !.text = Truncated(@, MAX_SHOWN)])])
          /\ conversation' = Append(conversation, ExecMsg(act, out.result))
    /\ UNCHANGED <<mode, alive, nextId, msgCount, approvals, denials, execLog>>
    /\ UNCHANGED <<termVars, webVars, srvVars, scanVars>>

\* A millisecond passes: new Date() gives another timestamp.  (One tick
\* between two executions is as good as many.)
Tick ==
    /\ clock < Len(conversation)
    /\ host' = [host EXCEPT !.clock = @ + 1]
    /\ UNCHANGED <<sessVars, termVars, webVars, srvVars, scanVars>>

ExecNext ==
    \/ \E act \in Proposals : Approved(act)
    \/ Tick

\* The scripts the model proposes to run: one of each kind of extension,
\* and a file without one.
Scripts ==
    {Act("RUN_SCRIPT", t, Null) :
        t \in {<<"/", "t", "m", "p", "/", "s", ".", "s", "h">>, <<"/", "t", "m", "p", "/", "a", ".", "p", "s", "1">>, <<"/", "t", "m", "p", "/", "b", ".", "b", "a", "t">>,
               <<"/", "t", "m", "p", "/", "c", ".", "C", "M", "D">>, <<"/", "t", "m", "p", "/", "x">>}}

\* The gate and the host at the start of the program, the command c and
\* the path p under check.
\* (os is OS_TYPE = config.os || 'linux'.)
HostStart(c, p) ==
    [cmd |-> c, filepath |-> p,
     os |-> "linux",
     config |-> {},
     verdict |-> [blocked |-> "none", readable |-> "none", writable |-> "none"],
     lastIndex |-> [k \in 1..Len(BLOCKED_COMMANDS) |-> 0],
     files |-> HostFiles,
     dirs |-> HostDirs,
     backups |-> {},
     clock |-> 0,
     spawned |-> <<>>,
     reads |-> {},
     result |-> Result(FALSE, "none", <<>>),
     shown |-> <<>>]

HostReset == host = Kept(HostStart(<<>>, <<>>))

\* The program after its start, no response under way.
Started ==
    /\ mode \in {"terminal", "web"}
    /\ alive = TRUE
    /\ conversation = <<>>
    /\ nextId = 0
    /\ msgCount = 0
    /\ approvals = {}
    /\ denials = {}
    /\ execLog = NoExec
    /\ threads = [t \in Tids |-> FreeThread]
    /\ paused = FALSE
    /\ qcb = 0
    /\ stdinBuf = NoLine
    /\ status = [a \in Ids |-> "none"]
    /\ stored = [a \in Ids |-> "none"]
    /\ streaming = FALSE
    /\ activeStreams = 0
    /\ reqs = <<>>
    /\ replies = <<>>
    /\ orphaned = {}
    /\ srvExec = 0
    /\ srvReq = [s \in Sessions |-> "none"]
    /\ srvChat = [s \in Sessions |-> NoChat]

Init == Started /\ doc = <<>> /\ text = <<>> /\ ScanReset /\ HostReset

Next ==
    \/ TermNext
    \/ WebNext

Spec == Init /\ [][Next]_vars

\* The program started in terminal mode, and started as the web server.
TermInit == Init /\ mode = "terminal"
WebInit == Init /\ mode = "web"
TermSpec == TermInit /\ [][TermNext]_vars

\* The terminal with streams that end or fail, a user who types when the
\* program reads and answers what is asked, and a readline interface that
\* delivers the lines it may deliver.
LiveNext ==
    \/ \E l \in Lines : Type(l)
    \/ OnLine
    \/ \E t \in Tids, n \in 0..MaxActs : StreamEnd(t, n, MaxLiveIds)
    \/ \E t \in Tids : TermStreamFail(t)
    \/ \E out \in ExecOutcomes : OnAnswer(out)
    \/ OnClose

TermLive ==
    /\ TermInit /\ [][LiveNext]_vars
    /\ \A t \in Tids :
          WF_vars((\E n \in 0..MaxActs : StreamEnd(t, n, MaxLiveIds)) \/ TermStreamFail(t))
    /\ WF_vars(\E l \in {"y", "n"} : Type(l))
    /\ WF_vars(\E out \in ExecOutcomes : OnAnswer(out))
    /\ WF_vars(OnLine)
WebSpec == WebInit /\ [][WebNext]_vars

\* The server and its browser client, with another tab of the browser on
\* the same storage.
TabNext ==
    \/ WebNext
    \/ StorageEvent(StaleView)

TabSpec == WebInit /\ [][TabNext]_vars

\* The scanner of the terminal mode on every response made of up to
\* MaxSegs segments, in every fragmentation.
ScanInit ==
    /\ Started /\ mode = "terminal"
    /\ doc \in Docs /\ text = Render(doc)
    /\ ScanReset /\ HostReset

ScanSpec == ScanInit /\ [][ScanNext]_vars

\* extractActions on every response that is one tag with a payload of up to
\* MaxPayload characters.
ExtractInit ==
    /\ Started /\ mode = "terminal"
    /\ doc \in TagDocs /\ text = Render(doc)
    /\ ScanReset /\ HostReset

ExtractSpec == ExtractInit /\ [][OnResponse]_vars

\* The scanner on the responses that end in an unterminated tag.
PartialInit ==
    /\ Started /\ mode = "terminal"
    /\ doc \in PartialDocs /\ text = Render(doc)
    /\ ScanReset /\ HostReset

PartialSpec == PartialInit /\ [][ScanNext]_vars

\* The safety gate on a command and a path.
GateInit ==
    /\ Started /\ mode = "terminal"
    /\ doc = <<>> /\ text = <<>> /\ ScanReset
    /\ \E c \in Commands, p \in GatePaths : host = Kept(HostStart(c, p))

GateSpec == GateInit /\ [][GateNext]_vars

\* The server under reloads of its configuration, a path under check.
ConfigInit ==
    /\ Started /\ mode = "web"
    /\ doc = <<>> /\ text = <<>> /\ ScanReset
    /\ \E p \in GatePaths : host = Kept(HostStart(<<>>, p))

ConfigSpec == ConfigInit /\ [][ConfigNext]_vars

\* The executor on the actions that the user approves.
ExecSpec == TermInit /\ [][ExecNext]_vars

\* The executor on scripts, on a program configured for any of the
\* operating systems the setup offers.
ScriptInit ==
    /\ Started /\ mode = "terminal"
    /\ doc = <<>> /\ text = <<>> /\ ScanReset
    /\ \E o \in {"linux", "macos", "windows"} :
          host = [Kept(HostStart(<<>>, <<>>)) EXCEPT !.os = o]

ScriptSpec == ScriptInit /\ [][\E act \in Scripts : Approved(act)]_vars

\* The server's event loop with the requests of its sessions.
SrvSpec == WebInit /\ [][SrvNext]_vars

(***************************************************************************)
(* What the properties speak of.                                           *)
(***************************************************************************)

\* Generations in progress: handlers inside streamChat, streams the client
\* consumes.
GenActive ==
    IF mode = "terminal"
    THEN Cardinality({t \in Tids : threads[t].pc = "stream"})
    ELSE activeStreams

\* Actions whose execution is in progress.  executeAction runs inside one
\* step of the terminal loop (execSync), so none is seen running there.
Running ==
    IF mode = "terminal" THEN 0
    ELSE Cardinality({a \in Ids : status[a] = "running"})

\* What holds back new messages and approvals: the paused readline
\* interface, the client's streaming flag.
GenFlag == IF mode = "terminal" THEN paused ELSE streaming

\* The conversation holds a result message of the action a.
HasResult(conv, a) == \E k \in 1..Len(conv) : conv[k].kind = "result" /\ conv[k].act = a

\* Terminal mode: the action a is still to be offered, or is being offered.
Waiting(a) ==
    \E t \in Tids : \E k \in 1..Len(threads[t].stack) :
        LET f == threads[t].stack[k] IN
        \E j \in 1..Len(f.acts) :
            /\ f.acts[j] = a
            /\ \/ j > f.i
               \/ j = f.i /\ k = Len(threads[t].stack) /\ threads[t].pc = "ask"

(***************************************************************************)
(* C1.  No operation is executed unless the user approved that action      *)
(* before: every executor invocation, in the terminal loop and at the      *)
(* execute endpoint, is one of an approved action.                         *)
(***************************************************************************)
C1_ExecutedOnlyIfApproved ==
    \A a \in 0..MaxIds : execLog[a] > 0 => a \in approvals

(***************************************************************************)
(* C2.  A denied action is terminal and never executes: a denied action    *)
(* has not been executed and is not approved, and it is never again        *)
(* waiting for an answer.                                                  *)
(***************************************************************************)
C2_DeniedNeverExecutes ==
    \A a \in denials : execLog[a] = 0 /\ a \notin approvals /\ ~Waiting(a)

\* An action has been denied and the loop has gone on to a later prompt.
C2_Witness ==
    /\ mode = "terminal"
    /\ denials # {}
    /\ \E t \in Tids : threads[t].pc = "ask"

(***************************************************************************)
(* C3.  Generation and execution never overlap and at most one of them is  *)
(* active: at most one running action, at most one generation in progress, *)
(* and never both.                                                         *)
(***************************************************************************)
C3_OneActive ==
    /\ Running <= 1
    /\ GenActive <= 1
    /\ ~(Running >= 1 /\ GenActive >= 1)

(***************************************************************************)
(* C4.  Approving sets the status running and persists it before the       *)
(* executor is invoked: as long as the execute request or its response is  *)
(* under way, the action's status and its persisted status are running.    *)
(***************************************************************************)
C4_RunningBeforeExecute ==
    \A a \in Ids : InFlight(a) => status[a] = "running" /\ stored[a] = "running"

\* An approved action whose request the server has not handled yet.
C4_Witness == \E a \in Ids : a \in Range(reqs) /\ a \in approvals

(***************************************************************************)
(* C5.  The status transitions.  As claimed: only pending->running,        *)
(* running->succeeded, running->failed, failed->pending, pending->denied   *)
(* (and the first status, pending, of a new action).  As amended: these    *)
(* and running->pending.                                                   *)
(***************************************************************************)
ClaimedTransitions ==
    {<<"none", "pending">>, <<"pending", "running">>, <<"running", "succeeded">>,
     <<"running", "failed">>, <<"failed", "pending">>, <<"pending", "denied">>}

C5_ClaimedTransitionsOnly ==
    [][\A a \in Ids : status'[a] # status[a] =>
          <<status[a], status'[a]>> \in ClaimedTransitions]_vars

C5_Transitions ==
    [][\A a \in Ids : status'[a] # status[a] =>
          <<status[a], status'[a]>> \in
              ClaimedTransitions \cup {<<"running", "pending">>}]_vars

\* An action is pending again after it was approved, and another one has
\* been denied.
C5_Witness ==
    /\ \E a \in approvals : status[a] = "pending"
    /\ \E a \in Ids : status[a] = "denied"

(***************************************************************************)
(* C6.  A running action is never approved again: no action has two        *)
(* execute requests (or responses) under way.                              *)
(***************************************************************************)
C6_NoSecondExecution ==
    \A a \in Ids : Count(reqs, a) + Count(replies, a) <= 1

\* A running action whose execution has been started and not completed.
C6_Witness == \E a \in Ids : status[a] = "running" /\ a \in Range(replies)

(***************************************************************************)
(* C7.  While the generation-in-progress flag is set, an approval, a       *)
(* denial or a new user message changes neither the conversation nor any   *)
(* action's status or answer.                                              *)
(***************************************************************************)
Request ==
    \/ OnLine
    \/ \E out \in ExecOutcomes : OnAnswer(out)
    \/ SendMsg
    \/ \E a \in Ids : ApproveClick(a) \/ DenyClick(a) \/ RetryClick(a)

C8_OneFollowUp ==
    /\ activeStreams <= 1
    /\ \A a \in Ids : status[a] \in {"succeeded", "failed"} => HasResult(conversation, a)

\* The second of two completions was recorded while the follow-up
\* generation of the first is in progress.
C8_Witness ==
    /\ streaming /\ activeStreams = 1
    /\ Len(conversation) >= 2
    /\ conversation[Len(conversation)].kind = "result"
    /\ conversation[Len(conversation) - 1].kind = "result"
    /\ conversation[Len(conversation)].act # conversation[Len(conversation) - 1].act

(***************************************************************************)
(* C9.  The generation-in-progress flag is set before a generation is      *)
(* requested, so it is set whenever a generation is in progress.           *)
(***************************************************************************)
C9_FlagSetWhileGenerating == GenActive > 0 => GenFlag

(***************************************************************************)
(* C10.  The result of an execution is never dropped: a result recorded in *)
(* the conversation is still there after a follow-up generation failed.    *)
(***************************************************************************)
C10_ResultKept ==
    [][(\E t \in Tids : TermStreamFail(t)) =>
          \A a \in Ids : HasResult(conversation, a) => HasResult(conversation', a)]_vars

(***************************************************************************)
(* C11.  Executing one session's command does not stall other sessions:    *)
(* while a command of one session is in progress, every other session      *)
(* whose response stream is open or whose execute request is waiting can   *)
(* take its next step.                                                     *)
(***************************************************************************)
C11_OtherSessionsProgress ==
    \A s \in Sessions : \A u \in Sessions \ {s} :
        srvExec = s =>
            /\ srvChat[u].open => ENABLED (ChatChunk(u) \/ ChatEnd(u) \/ ChatError(u))
            /\ srvReq[u] = "queued" => ENABLED ExecSyncCall(u)
(***************************************************************************)
(* C12.  An action whose execution fails (non-zero exit, timeout, I/O      *)
(* error) ends with the status pending, not failed: it shows its Approve   *)
(* button again.                                                           *)
(***************************************************************************)
C12_FailedExecutionPending ==
    [][\A a \in Ids :
        (replies # <<>> /\ Head(replies) = a /\ ClientComplete("error")) =>
            /\ status[a] = "running"
            /\ status'[a] = "pending"
            /\ status'[a] # "failed"]_vars

\* An action whose execution failed has been approved again.
C12_Witness ==
    \E a \in Ids :
        /\ ResultMsg(a, FALSE) \in Range(conversation)
        /\ execLog[a] = 1
        /\ status[a] = "running"
        /\ a \in Range(reqs)
(***************************************************************************)
(* C13.  After every approved execution the result message is appended to  *)
(* the conversation and a new generation is started with the updated       *)
(* conversation; a generation is started by nothing but an approved        *)
(* execution or a message of the user, so a generation that yields no      *)
(* action starts no further one and the chain ends there.                  *)
(***************************************************************************)
C13_ChainedGeneration ==
    [][/\ \A a \in Ids :
            execLog'[a] = execLog[a] + 1 =>
                /\ \E ok \in BOOLEAN :
                       conversation' = Append(conversation, ResultMsg(a, ok))
                /\ \E t \in Tids :
                       threads[t].pc = "ask" /\ threads'[t].pc = "stream"
                /\ GenActive' = GenActive + 1
       /\ \A t \in Tids :
            (threads[t].pc # "stream" /\ threads'[t].pc = "stream") =>
                \/ msgCount' = msgCount + 1
                \/ \E a \in Ids : execLog'[a] = execLog[a] + 1
       /\ \A t \in Tids :
            (threads[t].pc = "stream" /\ threads'[t].pc # "stream" /\ alive') =>
                GenActive' = GenActive - 1]_vars

\* A chain has ended: the generation that followed an execution has yielded
\* no action and nothing is in progress.
C13_Witness ==
    /\ mode = "terminal" /\ alive
    /\ \A t \in Tids : threads[t].pc = "free"
    /\ Len(conversation) >= 2
    /\ conversation[Len(conversation)].role = "assistant"
    /\ conversation[Len(conversation) - 1].kind = "result"
(***************************************************************************)
(* C14.  When the sessions array is replaced while an execution is under   *)
(* way, its completion is applied to the action of that id in the current  *)
(* array: once the response has been handled, the action is not left       *)
(* running and its persisted status is the one it shows.                   *)
(***************************************************************************)
C14_CompletionOnLiveAction ==
    \A a \in Ids :
        /\ status[a] = "running" => InFlight(a)
        /\ stored[a] = status[a]

\* The array was replaced during the execution of an action and the
\* response is the next one the client handles; another action has its
\* result and its final status.
C14_Witness ==
    /\ replies # <<>>
    /\ Head(replies) \in orphaned
    /\ \E b \in Ids :
        /\ ~InFlight(b)
        /\ status[b] = "succeeded"
        /\ ResultMsg(b, TRUE) \in Range(conversation)

Tags(d) == SelectSeq(d, LAMBDA seg : seg.form # "text")
PlainText(d) == Render(SelectSeq(d, LAMBDA seg : seg.form = "text"))

(***************************************************************************)
(* C16.  For a text with no action markup the display equals the input     *)
(* character for character, in every fragmentation, and no action is       *)
(* extracted.                                                              *)
(***************************************************************************)
C16_PlainTextVerbatim ==
    (done /\ Tags(doc) = <<>>) => display = Render(doc) /\ actions = <<>>

(***************************************************************************)
(* C17.  For a text with well-formed tags the display equals the input     *)
(* with the tags removed, in every fragmentation.                          *)
(***************************************************************************)
C17_DisplayWithoutMarkup ==
    (done /\ Tags(doc) # <<>>) => display = PlainText(doc)

(***************************************************************************)
(* C18.  Extraction does not depend on the fragmentation: the actions are  *)
(* those of the whole text, and for a text with one well-formed tag the    *)
(* one action has the type, target and content of the tag.                 *)
(***************************************************************************)
C18_ExtractionUnfragmented ==
    done =>
        /\ actions = extractActions(Render(doc))
        /\ Len(Tags(doc)) = 1 =>
              actions = <<ToAction(Tags(doc)[1].type, Tags(doc)[1].payload)>>

\* A tag followed by text has arrived in fragments, one of them ending with
\* the terminator: the text is displayed and the action extracted.
C18_Witness ==
    /\ done
    /\ Len(doc) = 2 /\ doc[1].form = "new" /\ doc[2].form = "text"
    /\ display = PlainText(doc)
    /\ actions = <<ToAction(doc[1].type, doc[1].payload)>>

(***************************************************************************)
(* C19.  The number of extracted actions is the number of well-formed tags *)
(* of the text: no tag yields two actions, no two tags yield one.          *)
(***************************************************************************)
C19_OneActionPerTag == done => Len(actions) = Len(Tags(doc))

\* The fields of a tag as claimed: for WRITE_FILE and RUN_SCRIPT the payload
\* p is split on its first colon, for the other types it is the target.
SplitFields(type, p) ==
    LET ci == IndexOfColon(p) IN
    IF type \in {"WRITE_FILE", "RUN_SCRIPT"} /\ ci > 0
    THEN [type |-> type, target |-> SubSeq(p, 1, ci - 1),
          content |-> SubSeq(p, ci + 1, Len(p))]
    ELSE [type |-> type, target |-> p, content |-> Null]

C21_PartialTagDiscarded == done => display = PlainText(doc)

\* Rule k of the blocklist has a match in the command c.
RuleMatches(k, c) ==
    LET rx == BLOCKED_COMMANDS[k]
        t == IF rx.fold THEN Upper(c) ELSE c
    IN \E i \in 1..(Len(t) + 1) : Ends(rx.re, t, i) # {}

MatchesARule(c) == \E k \in 1..Len(BLOCKED_COMMANDS) : RuleMatches(k, c)

(***************************************************************************)
(* C22.  A command is blocked if and only if it matches a rule of the      *)
(* blocklist; 'rm -rf /' is blocked and 'ls -la /tmp' is allowed; a        *)
(* decision of the gate changes no state (of the rules, of the host, of    *)
(* the conversation).                                                      *)
(***************************************************************************)
C22_BlockedIffRuleMatches ==
    [][verdict'.blocked # verdict.blocked =>
          /\ verdict'.blocked = YesNo(MatchesARule(cmd))
          /\ cmd = <<"r", "m", " ", "-", "r", "f", " ", "/">> => verdict'.blocked = "yes"
          /\ cmd = <<"l", "s", " ", "-", "l", "a", " ", "/", "t", "m", "p">> => verdict'.blocked = "no"
          /\ lastIndex' = lastIndex
          /\ fsVars' = fsVars
          /\ conversation' = conversation]_vars

\* 'rm -rf /' has been checked and is blocked, the rules as they were.
C22_Witness ==
    /\ cmd = <<"r", "m", " ", "-", "r", "f", " ", "/">>
    /\ verdict.blocked = "yes"
    /\ \A k \in 1..Len(BLOCKED_COMMANDS) : lastIndex[k] = 0

ForkBomb == <<":", "(", ")", "{", " ", ":", "|", ":", "&", " ", "}", ";", ":">>

(***************************************************************************)
(* C23.  No command that contains the fork bomb ':(){ :|:& };:' is given   *)
(* to execSync.                                                            *)
(***************************************************************************)
C23_ForkBombNeverSpawned ==
    \A n \in 1..Len(spawned) : ~Includes(spawned[n], ForkBomb)

\* p has one of the prefixes of the list as a literal prefix.
HasPrefixIn(p, list) ==
    \E k \in 1..Len(list) :
        /\ Len(list[k]) <= Len(p)
        /\ \A n \in 1..Len(list[k]) : p[n] = list[k][n]

(***************************************************************************)
(* C24.  A path is readable (writable) if and only if one of the read      *)
(* (write) prefixes is a literal prefix of it, nothing being resolved:     *)
(* '/etc/shadow' is readable and not writable, '/tmp/x' is both, and       *)
(* '/tmp/../etc/shadow' is writable.                                       *)
(***************************************************************************)
C24_PathAllowedIffPrefix ==
    /\ verdict.readable # "none" =>
          /\ verdict.readable = YesNo(HasPrefixIn(filepath, SAFE_READ_PATHS))
          /\ filepath \in {<<"/", "e", "t", "c", "/", "s", "h", "a", "d", "o", "w">>, <<"/", "t", "m", "p", "/", "x">>} => verdict.readable = "yes"
    /\ verdict.writable # "none" =>
          /\ verdict.writable = YesNo(HasPrefixIn(filepath, SAFE_WRITE_PATHS))
          /\ filepath = <<"/", "e", "t", "c", "/", "s", "h", "a", "d", "o", "w">> => verdict.writable = "no"
          /\ filepath \in {<<"/", "t", "m", "p", "/", "x">>, <<"/", "t", "m", "p", "/", ".", ".", "/", "e", "t", "c", "/", "s", "h", "a", "d", "o", "w">>} => verdict.writable = "yes"

\* '/etc/shadow' has been checked: readable, not writable.
C24_Witness ==
    /\ filepath = <<"/", "e", "t", "c", "/", "s", "h", "a", "d", "o", "w">>
    /\ verdict.readable = "yes"
    /\ verdict.writable = "no"

\* The action that the last step has executed, and its target as
\* executeAction resolves it.
Executed == conversation'[Len(conversation')].act
ExecutedStep == Len(conversation') = Len(conversation) + 1
Resolved(act) ==
    IF act.type # "RUN_CMD" /\ act.target # <<>> /\ act.target[1] # "/"
    THEN Cwd \o <<"/">> \o act.target ELSE act.target

(***************************************************************************)
(* C25.  A step that executes a RUN_SCRIPT action gives execSync nothing   *)
(* but the command line composed of the interpreter, the script and the    *)
(* arguments, and only when that whole line matches no rule of the         *)
(* blocklist: a script whose line with the arguments matches a rule is not *)
(* run, also when the line without them matches none.                      *)
(***************************************************************************)
C25_ComposedCommandChecked ==
    [][(ExecutedStep /\ Executed.type = "RUN_SCRIPT" /\ spawned' # spawned)
          => /\ spawned' = Append(spawned, FullCmd(Resolved(Executed), Executed.content))
             /\ ~MatchesARule(FullCmd(Resolved(Executed), Executed.content))]_vars

\* The script /tmp/s.sh with the arguments '; rm -rf /' has been approved:
\* it has been blocked and nothing has been spawned, while the command line
\* without the arguments matches no rule.
C25_Witness ==
    /\ conversation # <<>>
    /\ conversation[1].act = Act("RUN_SCRIPT", <<"/", "t", "m", "p", "/", "s", ".", "s", "h">>, <<";", " ", "r", "m", " ", "-", "r", "f", " ", "/">>)
    /\ conversation[1].why = "blocked"
    /\ ~MatchesARule(Shell(<<"/", "t", "m", "p", "/", "s", ".", "s", "h">>))
    /\ spawned = <<>>

\* The safety gate denies the action on the host as it is.
GateDenies(act) ==
    CASE act.type = "RUN_CMD" -> MatchesARule(act.target)
      [] act.type = "READ_FILE" -> ~HasPrefixIn(Resolved(act), SAFE_READ_PATHS)
      [] act.type = "WRITE_FILE" -> ~HasPrefixIn(Resolved(act), SAFE_WRITE_PATHS)
      [] act.type = "RUN_SCRIPT" ->
           \/ ~HasPrefixIn(Resolved(act), SAFE_READ_PATHS)
           \/ /\ files[Resolved(act)] # NoFile
              /\ MatchesARule(FullCmd(Resolved(act), act.content))
      [] OTHER -> FALSE

(***************************************************************************)
(* C26.  When the gate denies an action nothing changes on the host (no    *)
(* process, no file read or written, no directory, no backup), and the     *)
(* result is a failure with the reason of the denial, shown to the user    *)
(* and pushed to the conversation.                                         *)
(***************************************************************************)
C26_DeniedActionChangesNothing ==
    [][(ExecutedStep /\ GateDenies(Executed)) =>
          /\ files' = files /\ dirs' = dirs /\ backups' = backups
          /\ spawned' = spawned /\ reads' = reads
          /\ ~result'.success
          /\ result'.kind \in {"blocked", "access denied"}
          /\ shown' = Append(shown, result')
          /\ conversation'[Len(conversation')].ok = FALSE
          /\ conversation'[Len(conversation')].why = result'.kind]_vars

\* A write outside the write paths, to a directory that does not exist,
\* has been denied: no directory, no file, no backup.
C26_Witness ==
    /\ conversation # <<>>
    /\ conversation[1].act = Act("WRITE_FILE", <<"/", "r", "o", "o", "t", "/", "q", "/", "k">>, <<"a">>)
    /\ result = Result(FALSE, "access denied", <<"/", "r", "o", "o", "t", "/", "q", "/", "k">>)
    /\ shown = <<result>>
    /\ dirs = HostDirs /\ backups = {}
    /\ files[<<"/", "r", "o", "o", "t", "/", "q", "/", "k">>] = NoFile

(***************************************************************************)
(* C27.  A WRITE_FILE that the gate allows, to a file that exists, leaves  *)
(* a backup that holds what the file held before the write; to a path      *)
(* that does not exist it makes no backup.                                 *)
(***************************************************************************)
C27_BackupBeforeOverwrite ==
    [][(ExecutedStep /\ Executed.type = "WRITE_FILE" /\ ~GateDenies(Executed)) =>
          LET target == Resolved(Executed) IN
          IF files[target] # NoFile
          THEN \E b \in backups' :
                  /\ b.name = Encode(target) /\ b.time = clock
                  /\ b.data = files[target]
          ELSE backups' = backups]_vars

\* /tmp/x has been overwritten with 'a': the backup holds 'o'.
C27_Witness ==
    /\ files[<<"/", "t", "m", "p", "/", "x">>] = <<"a">>
    /\ \E b \in backups : b.name = Encode(<<"/", "t", "m", "p", "/", "x">>) /\ b.data = <<"o">>

(***************************************************************************)
(* C28.  A WRITE_FILE that the gate allows succeeds, whatever the content  *)
(* (an absent content included), and the file holds the content.           *)
(***************************************************************************)
C28_WritableWriteSucceeds ==
    [][(ExecutedStep /\ Executed.type = "WRITE_FILE" /\ ~GateDenies(Executed)) =>
          /\ result'.success
          /\ result'.kind \in {"written, backup saved", "created"}
          /\ files'[Resolved(Executed)] =
                (IF Executed.content = Null THEN <<>> ELSE Executed.content)]_vars

(***************************************************************************)
(* C29.  A backup, once made, is never changed or removed by a later       *)
(* operation.                                                              *)
(***************************************************************************)
C29_BackupsImmutable == [][backups \subseteq backups']_vars

C31_RunCmdOutcomes ==
    [][(ExecutedStep /\ Executed.type = "RUN_CMD") =>
          IF MatchesARule(Executed.target)
          THEN /\ result' = Result(FALSE, "blocked", Executed.target)
               /\ spawned' = spawned
          ELSE /\ spawned' = Append(spawned, Executed.target)
               /\ result'.kind \in {"output", "exec error"}
               /\ result'.success = (result'.kind = "output")
               /\ result'.text # <<>>]_vars

\* 'ls -la /tmp' has been run and has failed: the result is a failure with
\* what was captured of stderr.
C31_Witness ==
    /\ spawned = <<<<"l", "s", " ", "-", "l", "a", " ", "/", "t", "m", "p">>>>
    /\ result = Result(FALSE, "exec error", <<"e">>)
    /\ conversation[1].ok = FALSE

\* The interpreter that the claim names for the script t begins the line.
ByExtension(t, line) ==
    IF EndsWith(Upper(t), <<".", "P", "S", "1">>) THEN StartsWith(line, <<"p", "o", "w", "e", "r", "s", "h", "e", "l", "l", " ">>)
    ELSE IF EndsWith(Upper(t), <<".", "B", "A", "T">>) \/ EndsWith(Upper(t), <<".", "C", "M", "D">>)
    THEN StartsWith(line, <<"c", "m", "d", " ", "/", "c", " ">>)
    ELSE StartsWith(line, <<"b", "a", "s", "h", " ">>)

\* What executeAction gives to execSync for the action act when the program
\* is configured for the operating system o.
SpawnedOn(o, act) ==
    {out.host.spawned :
        out \in executeAction([Host EXCEPT !.os = o], act.type, act.target,
                              act.content, clock)}

(***************************************************************************)
(* C32.  A step that runs a script starts it with the interpreter of its   *)
(* extension (.ps1: PowerShell; .bat, .cmd: the command shell; any other:  *)
(* the POSIX shell), and the configured operating system takes part in     *)
(* the choice: for some script, the line that is run differs between two   *)
(* configured operating systems.                                           *)
(***************************************************************************)
C32_InterpreterByExtensionAndOs ==
    [][(ExecutedStep /\ Executed.type = "RUN_SCRIPT" /\ spawned' # spawned) =>
          /\ ByExtension(Resolved(Executed), spawned'[Len(spawned')])
          /\ \E act \in Scripts, o \in {"linux", "macos", "windows"} :
                SpawnedOn(o, act) # SpawnedOn(host.os, act)]_vars

\* The kinds of result of executeAction that carry success: true, and
\* those that carry success: false.
Successes == {"data", "output", "written, backup saved", "created"}
Failures == {"access denied", "not found", "blocked", "exec error", "error", "unknown action type"}

Persisted ==
    [read |-> IF Config.read_paths = Undefined
              THEN DEFAULT_READ_PATHS \o <<OPENCLAW_DIR>> ELSE Config.read_paths,
     write |-> IF Config.write_paths = Undefined
               THEN DEFAULT_WRITE_PATHS \o <<Cwd, OPENCLAW_DIR>> ELSE Config.write_paths]

NoLongerOpener ==
    /\ chunk # <<>> /\ ~insideAction /\ pendingBracket # <<>>
    /\ \A k \in 1..Len(ACT_TYPES) :
          ~StartsWith(Opener(ACT_TYPES[k]), Append(pendingBracket, Head(chunk)))

\* C36: the text held back as a possible opener is written to the display
\* as it is, once and in order, at the first character with which it is no
\* longer a prefix of one of the four openers, a second '[' included, and
\* the scanner holds nothing back after it (but a '[' that has just come,
\* which may begin an opener of its own).
C36_PendingFlushedVerbatim ==
    [][NoLongerOpener =>
          /\ display' \o pendingBracket' = display \o Append(pendingBracket, Head(chunk))
          /\ pendingBracket' \in {<<>>, <<"[">>}
          /\ ~insideAction']_vars

\* C37: every action of a response is offered once and executed at most
\* once, in the order of extraction: in the loop over the actions of a
\* response the actions before the current one have been answered, those
\* after it have not been offered, and the current one is either the one
\* the user is asked about, not answered yet, or an approved action whose
\* follow-up chain (the calls of processResponse above it) is under way;
\* and as long as the program runs no extracted action is passed over:
\* each has been answered or is still in the loop of its response.
C37_OfferedOnceInOrder ==
    /\ \A a \in Ids : execLog[a] <= 1
    /\ alive => \A a \in 1..nextId : a \in approvals \cup denials \/ Waiting(a)
    /\ \A t \in Tids : \A k \in 1..Len(threads[t].stack) :
          LET f == threads[t].stack[k]
              asked == k = Len(threads[t].stack) /\ threads[t].pc = "ask"
          IN \A j \in 1..Len(f.acts) :
                LET a == f.acts[j] IN
                /\ j < f.i => a \in approvals \cup denials
                /\ j > f.i => a \notin approvals \cup denials /\ execLog[a] = 0
                /\ j = f.i => IF asked THEN a \notin approvals \cup denials
                              ELSE a \in approvals /\ execLog[a] = 1

\* The second action of a response is offered: the first one was approved,
\* executed, and the generation that followed it has ended.
C37_Witness ==
    /\ mode = "terminal" /\ alive
    /\ \E t \in Tids :
          /\ threads[t].pc = "ask"
          /\ Len(threads[t].stack) = 1
          /\ threads[t].stack[1].i = 2
          /\ threads[t].stack[1].acts[1] \in approvals
          /\ execLog[threads[t].stack[1].acts[1]] = 1
    /\ conversation # <<>>
    /\ conversation[Len(conversation)].role = "assistant"

\* The action a was extracted at the tag: it has the type of the tag and
\* its payload begins with the payload of the tag.
FromTag(a, tag) ==
    /\ a.type = tag.type
    /\ StartsWith(IF a.content = Null THEN a.target
                  ELSE a.target \o <<":">> \o a.content, tag.payload)

\* C38: the list of extracted actions keeps the order of the tags in the
\* text, also for a text with tags of both forms: the actions of the list
\* come, one after the other, from tags that stand one after the other in
\* the text.
C38_ExtractionInTextOrder ==
    done => \E f \in [1..Len(actions) -> 1..Len(Tags(doc))] :
                /\ \A n \in 1..Len(actions) : FromTag(actions[n], Tags(doc)[f[n]])
                /\ \A n, m \in 1..Len(actions) : n < m => f[n] < f[m]

\* A tag of the terminator form followed by a legacy tag: two actions, in
\* the order of the text.
C38_Witness ==
    /\ done
    /\ Len(doc) = 2 /\ doc[1].form = "new" /\ doc[2].form = "old"
    /\ Len(actions) = 2
    /\ actions[1].type = doc[1].type /\ actions[2].type = doc[2].type
    /\ actions[1].type # actions[2].type

\* The generation that the thread t started for a new message of the user
\* fails in this step: the handler is in streamChat, called by
\* handleUserInput, and returns without an assistant message.
DirectFails(t) ==
    /\ alive /\ alive'
    /\ threads[t] = [pc |-> "stream", stack |-> <<>>]
    /\ threads'[t].pc = "free"
    /\ conversation' # Append(conversation, AssistantMsg)

\* C39: when the generation started by a new message of the user fails,
\* the conversation is again what it was before the message: the message
\* of the user is the last one and is removed, no assistant message is
\* added, no action is extracted or offered.
C39_FailedMessageRemoved ==
    [][\A t \in Tids :
          DirectFails(t) =>
             /\ conversation # <<>>
             /\ conversation[Len(conversation)] = UserMsg
             /\ conversation' = Pop(conversation)
             /\ nextId' = nextId
             /\ threads'[t] = FreeThread]_vars

====
